---- MODULE Spec2Model ----
(***************************************************************************)
(* Model of kino's bounded model-checking engine (bmc/src/lib.rs, Bmc::run)*)
(* together with the collaborators it drives: the transition system, the   *)
(* solver session, the property manager, the activation-literal factory    *)
(* and the event channel (specification Spec); and of the operators of the *)
(* term library (term/src/term.rs, Operator::type_check and                *)
(* Operator::eval; specification SpecOp) and of the merge of symbolic       *)
(* offsets (term/src/base.rs, Smt2Offset::merge; specification SpecMerge)   *)
(* and of the zipper that rewrites the variables of a term (term.rs,        *)
(* zip::var_map under bump and debump; specification SpecZip) and of the    *)
(* term store shared by concurrent producers (term/src/base.rs, HConsign,   *)
(* and the makers of term.rs; specification SpecStore).                     *)
(***************************************************************************)
EXTENDS Integers, Sequences, FiniteSets, TLC

VARIABLES
  sys,          \* the transition system given to run (a key of the catalogue)
  props,        \* the properties given to run (Vec<Prop>), as a set of ids
  conf_max,     \* conf::Bmc.max : Option<usize>, {} for None and {m} for Some(m)
  pc,           \* position of the control loop inside Bmc::run
  k,            \* the Offset2 of the loop: [curr, next]
  live,         \* properties tracked by the PropManager
  actlit,       \* counter of the Actlit factory (fresh literals made so far)
  lit,          \* the fresh literal of the current step
  inbox,        \* messages returned by event.recv() not yet handled
  falsified,    \* result of props.get_false of the current step
  model,        \* the solver's model after a sat answer, {} when none
  solverInit,   \* offsets at which the initial-state constraint is asserted
  solverTrans,  \* offsets j with trans(j, j+1) asserted
  solverImpl,   \* implications asserted: [lit, ps, k] = lit => some p in ps false at k
  msgsSent,     \* number of control messages delivered so far
  hist,         \* every request, reception and event of the run, in order
  operator,     \* the Operator under test
  args,         \* the constants it is applied to (Vec<Cst>)
  tc,           \* result of operator.type_check on the types of args
  ev,           \* result of operator.eval on args
  lhs,          \* the Smt2Offset merge is called on (self)
  rhs,          \* the Smt2Offset it is merged with
  merged,       \* result of lhs.merge(rhs), NoMerge before the call
  term,         \* the term given to the first call of var_map
  calls,        \* the functions applied with var_map to it, in order
  todo,         \* the functions still to apply with var_map, the head running
  path,         \* Zip.path: the steps leading to the current term
  curr,         \* Zip.curr: the current term
  zpc,          \* position inside var_map, or how the calls ended
  results,      \* the terms returned by the calls completed so far
  consign,      \* the hash-cons table: a function from shapes to handles
  made,         \* the shape behind each handle, in order of creation
  mutex,        \* the Mutex of the HConsign: "free" or the producer holding it
  prod,         \* each producer's call: position, shape asked for, handle found
  started,      \* number of maker calls started so far
  returned,     \* the calls completed: producer, shape, handle returned
  collapsed,  \* binder calls with no binding, with the handle they returned
  off2,         \* the Offset2 nxt is called on, and then its result
  ostat,        \* "ok", or "panicked" once an addition overflowed and panicked
  nxts,          \* number of calls of Offset2::nxt made so far
  fterm,        \* the term given to eval
  fmodel,       \* the valuation given to eval: values by variable symbol
  fpath,        \* zip2::Zip.path, root first
  bindings,     \* zip2::Zip.bindings, outermost map first
  quantified,   \* zip2::Zip.quantified, outermost map first
  fstep,        \* the Step last handed to the function folded
  fval,         \* what the function returned for it
  fpc,           \* "start", "up", "done", "failed", or the panic that ended the fold
  chain,        \* the Chain, head first: nodes [val, rep, set]
  build,        \* "debug" when debug_assert! is compiled in, else "release"
  cpc,          \* "ok", "panicked", or "split" once split_at consumed the chain
  inserts,      \* number of calls of insert made so far
  splitv,       \* the value given to split_at
  split          \* what split_at returned: [reps, rest]

bmcVars == << sys, props, conf_max, pc, k, live, actlit, lit, inbox, falsified,
              model, solverInit, solverTrans, solverImpl, msgsSent, hist >>

opVars == << operator, args, tc, ev >>

mergeVars == << lhs, rhs, merged >>

zipVars == << term, calls, todo, path, curr, zpc, results >>

storeVars == << consign, made, mutex, prod, started, returned, collapsed >>

offVars == << off2, ostat, nxts >>

foldVars == << fterm, fmodel, fpath, bindings, quantified, fstep, fval, fpc >>

chainVars == << chain, build, cpc, inserts, splitv, split >>

\* What a run of Bmc::run leaves alone.
others == << opVars, mergeVars, zipVars, storeVars, offVars, foldVars, chainVars >>

\* What the operators leave alone.
notOp == << bmcVars, mergeVars, zipVars, storeVars, offVars, foldVars, chainVars >>

\* What merge leaves alone.
notMerge == << bmcVars, opVars, zipVars, storeVars, offVars, foldVars, chainVars >>

\* What the zipper leaves alone.
notZip == << bmcVars, opVars, mergeVars, storeVars, offVars, foldVars, chainVars >>

\* What the term store leaves alone.
notStore == << bmcVars, opVars, mergeVars, zipVars, offVars, foldVars, chainVars >>

\* What the offsets leave alone.
notOff == << bmcVars, opVars, mergeVars, zipVars, storeVars, foldVars, chainVars >>

\* What a fold leaves alone.
notFold == << bmcVars, opVars, mergeVars, zipVars, storeVars, offVars, chainVars >>

\* What the operations on a chain leave alone.
notChain == << bmcVars, opVars, mergeVars, zipVars, storeVars, offVars, foldVars >>

vars == << bmcVars, others >>

--------------------------------------------------------------------------
\* Bounds of the model.

\* Largest offset the loop unrolls to.
MaxK == 3
\* Largest state of the catalogue's systems.
MaxState == 4
\* Largest number of properties given to a run.
MaxProps == 2
\* Number of control messages the supervisor sends during a run.
MaxMsgs == 1
\* The configured maximum number of unrollings, when one is configured.
MaxConf == 1

--------------------------------------------------------------------------
\* The transition systems and the properties of the catalogue.

States == 0 .. MaxState

Min(a, b) == IF a < b THEN a ELSE b

SysIds == {"counter", "diamond"}

\* Sys.init as the set of states satisfying it.
SysInit(s) == {0}

\* Sys.trans as a relation.  counter: x' = x + 1 (saturating at the top of
\* the modelled range); diamond: 0 -> 1, 0 -> 2, 1 -> 3, 2 -> 3, 3 -> 3.
SysTrans(s) ==
  IF s = "counter"
  THEN { <<x, Min(x + 1, MaxState)>> : x \in States }
  ELSE { <<0, 1>>, <<0, 2>>, <<1, 3>>, <<2, 3>>, <<3, 3>> }

PropIds == {"ne1", "ne2", "lt3", "ge0"}

\* Prop.body as the set of states satisfying it.
PropBody(p) ==
  CASE p = "ne1" -> States \ {1}
    [] p = "ne2" -> States \ {2}
    [] p = "lt3" -> { x \in States : x < 3 }
    [] OTHER     -> States

\* States of the system reachable in exactly j steps from an initial state.
RECURSIVE Reach(_, _)
Reach(s, j) ==
  IF j = 0 THEN SysInit(s)
  ELSE LET prev == Reach(s, j - 1)
       IN  { t \in States : \E x \in prev : <<x, t>> \in SysTrans(s) }

\* p holds in every state reachable in 0..depth steps.
HoldsThrough(s, p, depth) ==
  \A j \in 0 .. depth : Reach(s, j) \subseteq PropBody(p)

--------------------------------------------------------------------------
\* Offsets.

OffsetNxt(o) == (o + 1) % 65536

Offset2Init == [curr |-> 0, next |-> 1]

Offset2Nxt(o) == [curr |-> OffsetNxt(o.curr), next |-> OffsetNxt(o.next)]

--------------------------------------------------------------------------
\* Entries of the history.

Entry(op, ok, kk, ps, x) == [op |-> op, ok |-> ok, k |-> kk, ps |-> ps, x |-> x]

Req(op, ok, kk, ps, x) == Entry(op, ok, kk, ps, x)

Event(op, kk, ps, x) == Entry(op, TRUE, kk, ps, x)

SolverOps == {"mk_solver", "declare_funs", "assert_init", "mk_props", "forget",
              "declare_lit", "assert_impl", "check_sat", "get_false",
              "get_model", "unroll"}

EventOps == {"error", "done_error", "done_at", "disproved_at", "k_true", "log"}

\* try_error!: on Err, event.error then event.done(Info::Error) then return.
TryError(h) == h \o << Event("error", 0, {}, 0), Event("done_error", 0, {}, 0) >>

--------------------------------------------------------------------------
\* The solver session.

\* States the solver allows at offset j, from the constraints asserted so far.
RECURSIVE SolverReach(_, _, _)
SolverReach(initA, transA, j) ==
  IF j = 0 THEN (IF 0 \in initA THEN SysInit(sys) ELSE States)
  ELSE LET prev == SolverReach(initA, transA, j - 1)
       IN  IF (j - 1) \in transA
           THEN { t \in States : \E x \in prev : <<x, t>> \in SysTrans(sys) }
           ELSE IF prev = {} THEN {} ELSE States

\* Values of the state at offset kk in the models of check-sat-assuming l.
Models(l, kk) ==
  { s \in SolverReach(solverInit, solverTrans, kk) :
      \A i \in solverImpl :
        (i.lit = l /\ i.k = kk) => \E p \in i.ps : s \notin PropBody(p) }

--------------------------------------------------------------------------
\* The property manager.

NoneLeft == live = {}

OneFalse == live

Actlits == live

NotInhibited == live

GetFalse(s) == { p \in live : s \notin PropBody(p) }

--------------------------------------------------------------------------
\* Control messages.

Forget(ps) == [tag |-> "Forget", ps |-> ps]

Invariants == [tag |-> "Invariants", ps |-> {}]

Unknown == [tag |-> "Unknown", ps |-> {}]

MsgDown == { Forget(ps) : ps \in (SUBSET props) \ {{}} } \cup {Invariants, Unknown}

SeqsUpTo(S, n) == UNION { [1 .. m -> S] : m \in 0 .. n }

--------------------------------------------------------------------------
\* Bounds of the operator model.

\* Longest argument list handed to an operator.
MaxArgs == 3
\* Largest integer among the constants handed to an operator.
MaxInt == 1

--------------------------------------------------------------------------
\* Types and constants (typ::Type, cst::Cst).  A constant is its type and
\* a value num/den: Bool(b) is 1/1 or 0/1, Int(n) is n/1.

Types == {"Bool", "Int", "Rat"}

BoolCst(b) == [typ |-> "Bool", num |-> IF b THEN 1 ELSE 0, den |-> 1]

IntCst(n) == [typ |-> "Int", num |-> n, den |-> 1]

RECURSIVE Gcd(_, _)
Gcd(a, b) == IF b = 0 THEN a ELSE Gcd(b, a % b)

Abs(n) == IF n < 0 THEN 0 - n ELSE n

\* The rational n/d in lowest terms, d > 0.
RatCst(n, d) ==
  LET g == Gcd(Abs(n), d)
  IN  [typ |-> "Rat", num |-> n \div g, den |-> d \div g]

NoCst == [typ |-> "none", num |-> 0, den |-> 1]

Csts == {BoolCst(b) : b \in BOOLEAN}
          \cup {IntCst(n) : n \in 0 .. MaxInt}
          \cup {RatCst(n, 1) : n \in 0 .. MaxInt}

IsTrue(c) == c.num = 1

\* The signature of an argument list.
TypesOf(as) == [i \in DOMAIN as |-> as[i].typ]

\* Arithmetic of constants: Ok(result) when both have the same numeric
\* type, Err otherwise; a zero divisor is an error.
CstOk(c) == [ok |-> TRUE, cst |-> c]

CstErr == [ok |-> FALSE, cst |-> NoCst]

Numeric(a, b) == a.typ = b.typ /\ a.typ \in {"Int", "Rat"}

MkNum(t, n, d) == IF t = "Int" THEN IntCst(n \div d) ELSE RatCst(n, d)

CstAdd(a, b) ==
  IF Numeric(a, b)
  THEN CstOk(MkNum(a.typ, a.num * b.den + b.num * a.den, a.den * b.den))
  ELSE CstErr

CstSub(a, b) ==
  IF Numeric(a, b)
  THEN CstOk(MkNum(a.typ, a.num * b.den - b.num * a.den, a.den * b.den))
  ELSE CstErr

CstMul(a, b) ==
  IF Numeric(a, b)
  THEN CstOk(MkNum(a.typ, a.num * b.num, a.den * b.den))
  ELSE CstErr

CstDiv(a, b) ==
  IF Numeric(a, b) /\ b.num # 0
  THEN CstOk(MkNum(a.typ, IF b.num < 0 THEN 0 - a.num * b.den ELSE a.num * b.den,
                   a.den * Abs(b.num)))
  ELSE CstErr

CstNeg(a) ==
  IF a.typ \in {"Int", "Rat"} THEN CstOk(MkNum(a.typ, 0 - a.num, a.den)) ELSE CstErr

\* a <= b for two constants of the same numeric type.
CstLe(a, b) == a.num * b.den <= b.num * a.den

CstLt(a, b) == a.num * b.den < b.num * a.den

--------------------------------------------------------------------------
\* Operators (term.rs, enum Operator).

Operators == {"Eq", "Ite", "Not", "And", "Or", "Impl", "Xor", "Distinct",
              "Add", "Sub", "Mul", "Div", "Le", "Ge", "Lt", "Gt"}

NoArity == 255

\* Operator::arity: Some(n) as n, None as NoArity.
Arity(o) ==
  CASE o = "Not" -> 1
    [] o \in {"Div", "Le", "Ge", "Lt", "Gt"} -> 2
    [] o = "Ite" -> 3
    [] OTHER -> NoArity

\* Results of type_check: Ok(typ), or Err((tag, message)) where tag is
\* None (tagged FALSE) or Some(vec) (tagged TRUE, pos the vector) and said
\* is the argument number the message names (0 when it names none).
TcOk(t) == [ok |-> TRUE, typ |-> t, tagged |-> FALSE, pos |-> << >>, said |-> 0]

TcErr(tagged, pos, said) ==
  [ok |-> FALSE, typ |-> "none", tagged |-> tagged, pos |-> pos, said |-> said]

NoTc == [ok |-> FALSE, typ |-> "unset", tagged |-> FALSE, pos |-> << >>, said |-> 0]

\* Index (from 1) of the first element after the first that differs from
\* the first, 0 when there is none: the element the loops over the rest of
\* the signature stop at.
FirstOther(s) ==
  LET d == { i \in 2 .. Len(s) : s[i] # s[1] }
  IN  IF d = {} THEN 0 ELSE CHOOSE i \in d : \A j \in d : i <= j

\* Index (from 1) of the first element that is not t, 0 when none.
FirstNot(s, t) ==
  LET d == { i \in 1 .. Len(s) : s[i] # t }
  IN  IF d = {} THEN 0 ELSE CHOOSE i \in d : \A j \in d : i <= j

\* The loop shared by Distinct, the arithmetic operators and the
\* comparisons: cpt starts at 1 on the second element.
RestMatchesFirst(sig, res) ==
  LET i == FirstOther(sig)
  IN  IF i = 0 THEN TcOk(res) ELSE TcErr(TRUE, << i - 1 >>, i)

\* Operator::type_check.
TypeCheck(o, sig) ==
  CASE o = "Eq" ->
         \* cpt starts at 0 on the second element.
         LET i == FirstOther(sig)
         IN  IF i = 0 THEN TcOk("Bool") ELSE TcErr(TRUE, << i - 2 >>, i - 1)
    [] o = "Ite" ->
         IF Len(sig) # 3 THEN TcErr(FALSE, << >>, 0)
         ELSE IF sig[1] # "Bool" THEN TcErr(TRUE, << 0 >>, 0)
         ELSE IF sig[2] # sig[3] THEN TcErr(TRUE, << 1, 2 >>, 0)
         ELSE TcOk(sig[2])
    [] o = "Not" ->
         IF Len(sig) # 1 THEN TcErr(FALSE, << >>, 0)
         ELSE IF sig[1] # "Bool" THEN TcErr(TRUE, << 0 >>, 0)
         ELSE TcOk("Bool")
    [] o \in {"And", "Or", "Impl", "Xor"} ->
         LET i == FirstNot(sig, "Bool")
         IN  IF i = 0 THEN TcOk("Bool") ELSE TcErr(TRUE, << i - 1 >>, i)
    [] o = "Distinct" ->
         RestMatchesFirst(sig, "Bool")
    [] o \in {"Add", "Sub", "Mul", "Div"} ->
         IF Len(sig) = 0 THEN TcErr(FALSE, << >>, 0)
         ELSE IF sig[1] \notin {"Int", "Rat"} THEN TcErr(TRUE, << 0 >>, 0)
         ELSE RestMatchesFirst(sig, sig[1])
    [] o \in {"Le", "Ge", "Lt", "Gt"} ->
         IF Len(sig) = 0 THEN TcErr(FALSE, << >>, 0)
         ELSE IF sig[1] \notin {"Int", "Rat"} THEN TcErr(TRUE, << 0 >>, 0)
         ELSE RestMatchesFirst(sig, "Bool")

\* Results of eval: Ok(cst), or Err(kind) where said is the argument
\* number the error names (0 when it names none).
EvOk(c) == [ok |-> TRUE, cst |-> c, err |-> "none", said |-> 0]

EvErr(kind, said) == [ok |-> FALSE, cst |-> NoCst, err |-> kind, said |-> said]

NoEv == [ok |-> FALSE, cst |-> NoCst, err |-> "unset", said |-> 0]

\* The loop of Impl over args[i ..]: a false argument after a true one
\* returns false at once.
RECURSIVE ImplScan(_, _, _)
ImplScan(as, i, so_far) ==
  IF i > Len(as) THEN EvOk(BoolCst(TRUE))
  ELSE IF as[i].typ # "Bool" THEN EvErr("OpTypeError", i)
  ELSE IF so_far
       THEN IF ~IsTrue(as[i]) THEN EvOk(BoolCst(FALSE))
            ELSE ImplScan(as, i + 1, so_far)
       ELSE ImplScan(as, i + 1, IsTrue(as[i]))

\* The left fold of Add, Sub, Mul and Div from res over args[i ..].
RECURSIVE Fold(_, _, _, _)
Fold(o, res, as, i) ==
  IF i > Len(as) THEN EvOk(res)
  ELSE LET r == CASE o = "Add" -> CstAdd(res, as[i])
                  [] o = "Sub" -> CstSub(res, as[i])
                  [] o = "Mul" -> CstMul(res, as[i])
                  [] o = "Div" -> CstDiv(res, as[i])
       IN  IF r.ok THEN Fold(o, r.cst, as, i + 1) ELSE EvErr("OpTypeError", 0)

\* The comparisons: two Int or two Rat.
Compare(o, as) ==
  IF Len(as) # 2 THEN EvErr("OpArityError", 0)
  ELSE IF as[1].typ \notin {"Int", "Rat"} \/ as[2].typ # as[1].typ
       THEN EvErr("OpTypeError", 0)
  ELSE EvOk(BoolCst(CASE o = "Le" -> CstLe(as[1], as[2])
                      [] o = "Ge" -> CstLe(as[2], as[1])
                      [] o = "Lt" -> CstLt(as[1], as[2])
                      [] o = "Gt" -> CstLt(as[2], as[1])))

\* Operator::eval.
Eval(o, as) ==
  CASE o = "Eq" ->
         EvOk(BoolCst(FirstOther(as) = 0))
    [] o = "Ite" ->
         IF Len(as) # 3 THEN EvErr("OpArityError", 0)
         ELSE IF as[1].typ # "Bool" THEN EvErr("OpTypeError", 1)
         ELSE IF IsTrue(as[1]) THEN EvOk(as[2]) ELSE EvOk(as[3])
    [] o = "Not" ->
         IF Len(as) # 1 THEN EvErr("OpArityError", 0)
         ELSE IF as[1].typ # "Bool" THEN EvErr("OpTypeError", 0)
         ELSE EvOk(BoolCst(~IsTrue(as[1])))
    [] o = "And" ->
         LET i == FirstNot(TypesOf(as), "Bool")
         IN  IF i # 0 THEN EvErr("OpTypeError", i)
             ELSE EvOk(BoolCst(\A j \in DOMAIN as : IsTrue(as[j])))
    [] o = "Or" ->
         \* res starts at true and is or-ed with every argument.
         LET i == FirstNot(TypesOf(as), "Bool")
         IN  IF i # 0 THEN EvErr("OpTypeError", i)
             ELSE EvOk(BoolCst(TRUE \/ \E j \in DOMAIN as : IsTrue(as[j])))
    [] o = "Impl" ->
         ImplScan(as, 1, FALSE)
    [] o = "Xor" ->
         LET i == FirstNot(TypesOf(as), "Bool")
         IN  IF i # 0 THEN EvErr("OpTypeError", i)
             ELSE EvOk(BoolCst(Cardinality({ j \in DOMAIN as : IsTrue(as[j]) }) = 1))
    [] o = "Distinct" ->
         EvOk(BoolCst(~(FirstOther(as) = 0)))
    [] o \in {"Add", "Mul", "Div"} ->
         IF Len(as) = 0 THEN EvErr("OpArityError", 0)
         ELSE Fold(o, as[1], as, 2)
    [] o = "Sub" ->
         IF Len(as) = 0 THEN EvErr("OpArityError", 0)
         ELSE IF Len(as) = 1
              THEN IF CstNeg(as[1]).ok THEN EvOk(CstNeg(as[1]).cst)
                   ELSE EvErr("panic", 0)
         ELSE Fold(o, as[1], as, 2)
    [] o \in {"Le", "Ge", "Lt", "Gt"} ->
         Compare(o, as)

\* No operator is under test.
OpIdle == operator = "Eq" /\ args = << >> /\ tc = NoTc /\ ev = NoEv

--------------------------------------------------------------------------
\* Symbolic offsets (base.rs, enum Smt2Offset).

\* Largest offset inside a symbolic offset.
MaxOff == 3

No == [tag |-> "No", lo |-> 0, hi |-> 0]

One(o) == [tag |-> "One", lo |-> o, hi |-> o]

Two(lo, hi) == [tag |-> "Two", lo |-> lo, hi |-> hi]

\* merge returned None.
MergeFails == [tag |-> "None", lo |-> 0, hi |-> 0]

NoMerge == [tag |-> "unset", lo |-> 0, hi |-> 0]

Smt2Offsets ==
  {No} \cup {One(o) : o \in 0 .. MaxOff}
       \cup {Two(lo, hi) : lo \in 0 .. MaxOff, hi \in 0 .. MaxOff}

\* Two(lo, hi) has lo < hi.
WellFormed(a) == a.tag = "Two" => a.lo < a.hi

Merge_Unordered(a, b) ==
  IF a = b THEN b
  ELSE CASE a.tag = "No" -> b
         [] b.tag = "No" -> a
         [] a.tag = "One" /\ b.tag = "One" -> Two(a.lo, b.lo)
         [] a.tag = "Two" /\ b.tag = "One" ->
              IF b.lo # a.lo /\ b.lo # a.hi THEN MergeFails ELSE a
         [] a.tag = "Two" /\ b.tag = "Two" -> MergeFails
         [] a.tag = "One" /\ b.tag = "Two" ->
              IF a.lo # b.lo /\ a.lo # b.hi THEN MergeFails ELSE b

\* Smt2Offset::merge; the arm (One, Two) is rhs.merge(self), which lands in
\* the arm (Two, One).
Merge(a, b) ==
  IF a = b THEN b
  ELSE CASE a.tag = "No" -> b
         [] b.tag = "No" -> a
         [] a.tag = "One" /\ b.tag = "One" ->
              IF a.lo < b.lo THEN Two(a.lo, b.lo)
              ELSE IF a.lo = b.lo THEN b
              ELSE Two(b.lo, a.lo)
         [] a.tag = "Two" /\ b.tag = "One" ->
              IF b.lo # a.lo /\ b.lo # a.hi THEN MergeFails ELSE a
         [] a.tag = "Two" /\ b.tag = "Two" -> MergeFails
         [] a.tag = "One" /\ b.tag = "Two" ->
              IF a.lo # b.lo /\ a.lo # b.hi THEN MergeFails ELSE b

\* No merge is under way.
MergeIdle == lhs = No /\ rhs = No /\ merged = NoMerge

--------------------------------------------------------------------------
\* Bounds of the term model.

\* Longest argument list of an application.
MaxKids == 2
\* Largest number of bindings of a let.
MaxBinds == 2

--------------------------------------------------------------------------
\* Terms (term.rs, enum RealTerm).  A term is a record: node is the
\* variant, head the variable, constant, operator or function symbol, st
\* the State of a state variable, binds the bound symbols (with their types
\* under a quantifier), kids the sub-terms: the arguments of an application,
\* the body of a quantifier, the bound values of a let followed by its body.

NoTerm == [node |-> "none", head |-> "", st |-> "none", binds |-> << >>, kids |-> << >>]

\* V(var) with var a state variable SVar(s, st).
SVarT(s, st) == [node |-> "V", head |-> s, st |-> st, binds |-> << >>, kids |-> << >>]

\* V(var) with var a variable that is not a state variable.
VarT(s) == [node |-> "V", head |-> s, st |-> "none", binds |-> << >>, kids |-> << >>]

CstT(c) == [node |-> "C", head |-> c, st |-> "none", binds |-> << >>, kids |-> << >>]

OpT(o, as) == [node |-> "Op", head |-> o, st |-> "none", binds |-> << >>, kids |-> as]

AppT(f, as) == [node |-> "App", head |-> f, st |-> "none", binds |-> << >>, kids |-> as]

ForallT(bs, body) ==
  [node |-> "Forall", head |-> "", st |-> "none", binds |-> bs, kids |-> << body >>]

ExistsT(bs, body) ==
  [node |-> "Exists", head |-> "", st |-> "none", binds |-> bs, kids |-> << body >>]

\* Let(bs, body) with bs a sequence of bindings [sym, val].
LetT(bs, body) ==
  [node |-> "Let", head |-> "", st |-> "none",
   binds |-> [i \in DOMAIN bs |-> [sym |-> bs[i].sym, typ |-> ""]],
   kids |-> [i \in DOMAIN bs |-> bs[i].val] \o << body >>]

\* The bindings of a let, and its body.
LetBinds(t) == [i \in DOMAIN t.binds |-> [sym |-> t.binds[i].sym, val |-> t.kids[i]]]

Body(t) == t.kids[Len(t.kids)]

\* BindMaker for TermConsign: an empty binding list gives the body itself.
MkForall(bs, body) == IF bs = << >> THEN body ELSE ForallT(bs, body)

MkExists(bs, body) == IF bs = << >> THEN body ELSE ExistsT(bs, body)

MkLet(bs, body) == IF bs = << >> THEN body ELSE LetT(bs, body)

\* Vec::reverse and the two halves of Vec::pop.
RECURSIVE Reverse(_)
Reverse(s) == IF s = << >> THEN << >> ELSE Append(Reverse(Tail(s)), Head(s))

Last(s) == s[Len(s)]

Front(s) == SubSeq(s, 1, Len(s) - 1)

--------------------------------------------------------------------------
\* The terms handed to the zipper.

LeafTerms == {SVarT("x", "Curr"), SVarT("x", "Next"), VarT("y"), CstT("true")}

LetSyms == << "a", "b", "c", "d" >>

\* The lists of n bindings of the symbols a, b, ... to leaves.
Bindings(n) ==
  { [i \in 1 .. n |-> [sym |-> LetSyms[i], val |-> vs[i]]] : vs \in [1 .. n -> LeafTerms] }

Bound == << [sym |-> "y", typ |-> "Int"] >>

\* Applications (empty ones included: OpMaker and AppMaker take any list),
\* quantifiers and lets over leaves.
Flat ==
  {OpT("and", as) : as \in SeqsUpTo(LeafTerms, MaxKids)}
    \cup {AppT("f", as) : as \in SeqsUpTo(LeafTerms, MaxKids)}
    \cup {ForallT(Bound, l) : l \in LeafTerms}
    \cup {ExistsT(Bound, l) : l \in LeafTerms}
    \cup UNION { {LetT(bs, l) : bs \in Bindings(n), l \in LeafTerms} : n \in 1 .. MaxBinds }

\* The same below one more operator, quantifier or let.
Nested ==
  {OpT("not", << t >>) : t \in Flat}
    \cup {OpT("and", << CstT("true"), t >>) : t \in Flat}
    \cup {ForallT(Bound, t) : t \in Flat}
    \cup {LetT(<< [sym |-> "e", val |-> t] >>, VarT("e")) : t \in Flat}

Terms == LeafTerms \cup Flat \cup Nested

\* Every state variable of t is a current-state variable.
RECURSIVE OnlyCurr(_)
OnlyCurr(t) ==
  /\ t.node = "V" => t.st \in {"Curr", "none"}
  /\ \A i \in DOMAIN t.kids : OnlyCurr(t.kids[i])

\* t holds an application to no argument.
RECURSIVE HasEmptyApp(_)
HasEmptyApp(t) ==
  \/ t.node \in {"Op", "App"} /\ t.kids = << >>
  \/ \E i \in DOMAIN t.kids : HasEmptyApp(t.kids[i])

--------------------------------------------------------------------------
\* Steps of the zipper (term.rs, zip::Step).

OpStep(o, lft, rgt) == [step |-> "Op", head |-> o, lft |-> lft, rgt |-> rgt]

AppStep(f, lft, rgt) == [step |-> "App", head |-> f, lft |-> lft, rgt |-> rgt]

ForallStep(bs) == [step |-> "Forall", binds |-> bs]

ExistsStep(bs) == [step |-> "Exists", binds |-> bs]

Let1Step(bs) == [step |-> "Let1", binds |-> bs]

Let2Step(lft, sym, rgt, t) ==
  [step |-> "Let2", lft |-> lft, sym |-> sym, rgt |-> rgt, t |-> t]

\* Results of the function given to var_map: Ok(Some(term)), Ok(None), Err.
Replace(t) == [ok |-> TRUE, some |-> TRUE, term |-> t]

Keep == [ok |-> TRUE, some |-> FALSE, term |-> NoTerm]

Illegal == [ok |-> FALSE, some |-> FALSE, term |-> NoTerm]

\* The closure of bump.
BumpF(t) ==
  IF t.node = "V"
  THEN CASE t.st = "Curr" -> Replace(SVarT(t.head, "Next"))
         [] t.st = "Next" -> Illegal
         [] OTHER -> Keep
  ELSE Keep

\* The closure of debump.
DebumpF(t) ==
  IF t.node = "V"
  THEN CASE t.st = "Next" -> Replace(SVarT(t.head, "Curr"))
         [] t.st = "Curr" -> Illegal
         [] OTHER -> Keep
  ELSE Keep

\* The closure named f.
Closure(f, t) ==
  CASE f = "bump" -> BumpF(t)
    [] f = "debump" -> DebumpF(t)
    [] f = "keep" -> Keep

\* No traversal is under way.
ZipIdle ==
  /\ term = NoTerm
  /\ calls = << >>
  /\ todo = << >>
  /\ path = << >>
  /\ curr = NoTerm
  /\ zpc = "idle"
  /\ results = << >>

--------------------------------------------------------------------------
\* The term store (base.rs, HConsign<T> = Arc<Mutex<HashConsign<T>>>; term.rs,
\* TermConsign and its makers).  A shape is a RealTerm whose sub-terms are
\* handles; a handle is the uid the table gave to a shape.

\* Number of maker calls of a run.
MaxCalls == 3

Producers == {"p1", "p2"}

Shape(node, head, kids) == [node |-> node, head |-> head, kids |-> kids]

NoShape == Shape("none", "", << >>)

Binders == {"Forall", "Exists", "Let"}

\* The shapes a maker call can ask for, with sub-terms among the handles hs:
\* var, cst, op and app (on any argument list, the empty one included),
\* forall and let_b with one binding, forall, exists and let_b with none (the
\* head of a binder is the symbol it binds, "" when it binds nothing; its
\* last kid is the body).
ShapesOver(hs) ==
  {Shape("V", "x", << >>), Shape("C", "true", << >>),
   Shape("Op", "and", << >>), Shape("App", "f", << >>)}
    \cup {Shape("Op", "not", << h >>) : h \in hs}
    \cup {Shape("App", "f", << h >>) : h \in hs}
    \cup {Shape("Forall", "y", << h >>) : h \in hs}
    \cup {Shape("Let", "a", << h, h >>) : h \in hs}
    \cup {Shape(b, "", << h >>) : b \in Binders, h \in hs}

\* bind.is_empty() in forall, exists and let_b (term.rs:1003, 1009, 1015).
BindIsEmpty(sh) == sh.node \in Binders /\ sh.head = ""

\* A binder with nothing to bind is never sent to self.mk.
GoesToMk_Always(sh) == TRUE

GoesToMk(sh) == ~BindIsEmpty(sh)

\* The term behind a handle, sub-terms expanded.
RECURSIVE Expand(_, _)
Expand(mk, h) ==
  [node |-> mk[h].node, head |-> mk[h].head,
   kids |-> [i \in DOMAIN mk[h].kids |-> Expand(mk, mk[h].kids[i])]]

NoCall == [ppc |-> "idle", shape |-> NoShape, handle |-> 0]

\* The store is not in use.
StoreIdle ==
  /\ consign = << >>
  /\ made = << >>
  /\ mutex = "free"
  /\ prod = [p \in Producers |-> NoCall]
  /\ started = 0
  /\ returned = {}
  /\ collapsed = {}

--------------------------------------------------------------------------
\* Offsets at both ends of their range (base.rs, Offset { offset: u16 }).

\* Number of nxt calls already made on the Offset2 drawn at the low end, and
\* number of calls still possible on the one drawn at the high end.
MaxStart == 20
\* Number of calls of Offset2::nxt made on the Offset2 drawn.
MaxNxt == 5

\* Largest u16.
U16Max == 65535

\* self.offset + 1u16 overflows.
Overflows(o) == o + 1 > U16Max

\* The Offset2 reached from Offset2::init() by n calls of nxt.
Offset2At(n) == [curr |-> n, next |-> n + 1]

\* No offset is being advanced.
OffIdle == off2 = Offset2Init /\ ostat = "idle" /\ nxts = 0

--------------------------------------------------------------------------
\* The fold (term.rs, mod zip2) and the evaluator folded over it (mod eval).

\* A HashMap<Sym, _> is a function on the symbols it holds.
EmptyMap == [s \in {} |-> NoCst]

MapInsert(m, s, v) == [x \in DOMAIN m \cup {s} |-> IF x = s THEN v ELSE m[x]]

\* The steps of zip2::ZipStep that differ from those of zip: Let1 while the
\* bound values are reduced, Let2 while the body is.
FLet1Step(lft, sym, rgt, kid) ==
  [step |-> "Let1", lft |-> lft, sym |-> sym, rgt |-> rgt, kid |-> kid]

FLet2Step(lft) == [step |-> "Let2", lft |-> lft]

\* zip2::Step<T>: what the function folded is given.
FStep(kind, head, vals, binds) ==
  [step |-> kind, head |-> head, vals |-> vals, binds |-> binds]

NoStep == FStep("none", "", << >>, << >>)

\* The panics of zip_down and zip_up: an application to nothing, a let of
\* nothing, add_binding or a pop on an empty stack.
Panics == {"nothing", "no bindings", "add_binding", "Let2", "quantifieds"}

\* The state of a Zip with the Step reached, or the panic.
Zipped(p, bs, qs, st, panic) ==
  [path |-> p, bindings |-> bs, quantified |-> qs, step |-> st, panic |-> panic]

\* The map pushed for a quantifier: its symbols with their types.
QuantMap(syms) ==
  [s \in {syms[i].sym : i \in DOMAIN syms} |->
     LET at == { i \in DOMAIN syms : syms[i].sym = s }
     IN  syms[CHOOSE i \in at : \A j \in at : j <= i].typ]

\* Zip::zip_down.
RECURSIVE ZipDown2(_, _, _, _)
ZipDown2(p, bs, qs, t) ==
  CASE t.node \in {"Op", "App"} ->
         IF t.kids = << >>
         THEN Zipped(p, bs, qs, NoStep, "nothing")
         ELSE LET terms == Reverse(t.kids)
                  st == IF t.node = "Op" THEN OpStep(t.head, << >>, Front(terms))
                        ELSE AppStep(t.head, << >>, Front(terms))
              IN  ZipDown2(Append(p, st), bs, qs, Last(terms))
    [] t.node = "Forall" ->
         ZipDown2(Append(p, ForallStep(t.binds)), bs, Append(qs, QuantMap(t.binds)), Body(t))
    [] t.node = "Exists" ->
         ZipDown2(Append(p, ExistsStep(t.binds)), bs, Append(qs, QuantMap(t.binds)), Body(t))
    [] t.node = "Let" ->
         LET syms == Reverse(LetBinds(t))
         IN  IF syms = << >>
             THEN Zipped(p, Append(bs, EmptyMap), qs, NoStep, "no bindings")
             ELSE ZipDown2(Append(p, FLet1Step(<< >>, Last(syms).sym, Front(syms), Body(t))),
                           Append(bs, EmptyMap), qs, Last(syms).val)
    [] t.node = "C" -> Zipped(p, bs, qs, FStep("C", t.head, << >>, << >>), "")
    [] t.node = "V" -> Zipped(p, bs, qs, FStep("V", t.head, << >>, << >>), "")

\* Zip::add_binding on the last map.
AddBinding(bs, sym, v) == [bs EXCEPT ![Len(bs)] = MapInsert(bs[Len(bs)], sym, v)]

\* self.bindings.pop() and self.quantified.pop().
PopMap_Keep(maps) == maps

PopMap(maps) == Front(maps)

\* Zip::zip_up on a non-empty path.
ZipUp2(p, bs, qs, v) ==
  LET top  == Last(p)
      rest == Front(p)
  IN  CASE top.step \in {"Op", "App"} ->
             LET lft == Append(top.lft, v)
             IN  IF top.rgt # << >>
                 THEN ZipDown2(Append(rest, [top EXCEPT !.lft = lft, !.rgt = Front(top.rgt)]),
                               bs, qs, Last(top.rgt))
                 ELSE Zipped(rest, bs, qs, FStep(top.step, top.head, lft, << >>), "")
        [] top.step = "Let1" ->
             IF bs = << >>
             THEN Zipped(rest, bs, qs, NoStep, "add_binding")
             ELSE LET nbs == AddBinding(bs, top.sym, v)
                      lft == Append(top.lft, [sym |-> top.sym, val |-> v])
                  IN  IF top.rgt # << >>
                      THEN ZipDown2(Append(rest, FLet1Step(lft, Last(top.rgt).sym,
                                                           Front(top.rgt), top.kid)),
                                    nbs, qs, Last(top.rgt).val)
                      ELSE ZipDown2(Append(rest, FLet2Step(lft)), nbs, qs, top.kid)
        [] top.step = "Let2" ->
             IF bs = << >>
             THEN Zipped(rest, bs, qs, NoStep, "Let2")
             ELSE Zipped(rest, PopMap(bs), qs, FStep("Let", "", << v >>, top.lft), "")
        [] top.step \in {"Forall", "Exists"} ->
             IF qs = << >>
             THEN Zipped(rest, bs, qs, NoStep, "quantifieds")
             ELSE Zipped(rest, bs, PopMap(qs), FStep(top.step, "", << v >>, top.binds), "")

\* zip2::extract: the innermost map holding sym, 0 when none does.
Extract(sym, maps) ==
  LET holding == { i \in DOMAIN maps : sym \in DOMAIN maps[i] }
  IN  IF holding = {} THEN 0 ELSE CHOOSE i \in holding : \A j \in holding : j <= i

\* The symbols factory.type_of knows in the scope, all Bool, and the value
\* of Type::default() for Bool.
Declared == {"y"}

DefaultBool == BoolCst(FALSE)

\* eval::eval_term on a variable.
EvalVar(m, sym, bs, qs) ==
  IF sym \in DOMAIN m THEN EvOk(m[sym])
  ELSE IF Extract(sym, bs) # 0 THEN EvOk(bs[Extract(sym, bs)][sym])
  ELSE IF Extract(sym, qs) # 0 THEN EvErr("quantified", 0)
  ELSE IF sym \in Declared THEN EvOk(DefaultBool)
  ELSE EvErr("not found", 0)

\* eval::eval_term.
EvalTerm(m, st, bs, qs) ==
  CASE st.step = "App" -> EvErr("applications", 0)
    [] st.step = "Op" -> Eval(st.head, st.vals)
    [] st.step = "Let" -> EvOk(st.vals[1])
    [] st.step = "C" -> EvOk(BoolCst(st.head = "true"))
    [] st.step = "V" -> EvalVar(m, st.head, bs, qs)
    [] OTHER -> EvErr("quantifiers", 0)

\* The leaves of the terms evaluated: a constant, the symbols a and b that
\* lets bind, the symbol y that quantifiers bind.
EvalLeaves == {CstT("true"), VarT("a"), VarT("b"), VarT("y")}

\* The lists of n let bindings of a, b, ... to values among vs.
LetsOf(n, vs) ==
  { [i \in 1 .. n |-> [sym |-> LetSyms[i], val |-> f[i]]] : f \in [1 .. n -> vs] }

BoundY == << [sym |-> "y", typ |-> "Bool"] >>

\* Terms as the term store builds them (let_b and forall on an empty list
\* give the body): leaves, one node over leaves, one node over those.
EvalFlat ==
  {OpT("Not", << l >>) : l \in EvalLeaves}
    \cup {OpT("And", as) : as \in SeqsUpTo(EvalLeaves, MaxKids)}
    \cup {AppT("f", << l >>) : l \in EvalLeaves}
    \cup UNION { {MkLet(bs, l) : bs \in LetsOf(n, EvalLeaves), l \in EvalLeaves} :
                 n \in 0 .. MaxBinds }
    \cup {MkForall(bs, l) : bs \in {<< >>, BoundY}, l \in EvalLeaves}

EvalNested ==
  {OpT("Not", << t >>) : t \in EvalFlat}
    \cup {MkLet(<< [sym |-> "a", val |-> t] >>, VarT("a")) : t \in EvalFlat}
    \cup {MkLet(<< [sym |-> "b", val |-> CstT("true")] >>, t) : t \in EvalFlat}
    \cup {MkForall(BoundY, t) : t \in EvalFlat}

EvalTerms == EvalLeaves \cup EvalFlat \cup EvalNested

\* The valuations given to eval: a, y or both valued false, or none.
Valuations == UNION { [S -> {BoolCst(FALSE)}] : S \in SUBSET {"a", "y"} }

\* No fold is under way.
FoldIdle ==
  /\ fterm = NoTerm
  /\ fmodel = EmptyMap
  /\ fpath = << >>
  /\ bindings = << >>
  /\ quantified = << >>
  /\ fstep = NoStep
  /\ fval = NoEv
  /\ fpc = "idle"

--------------------------------------------------------------------------
\* Chains (chain.rs, enum Chain<Val, TermSet>: Nil, Cons(val, rep, set, tail)).

\* Largest value of the domain, and number of calls of insert of a run.
MaxVal == 2
MaxInserts == 4

\* The values of the Domain, ordered by Ord::cmp.
Vals == 0 .. MaxVal

ChainTerms == {"t1", "t2"}

\* Cons(val, rep, set, _).
Node(v, t, s) == [val |-> v, rep |-> t, set |-> s]

\* val.cmp(& v).
Cmp(val, v) == IF val < v THEN "Less" ELSE IF val = v THEN "Equal" ELSE "Greater"

RevAppend_NoRev(self, that) == self \o that

\* Chain::rev_append: the first chain reversed, then the second.
RECURSIVE RevAppend(_, _)
RevAppend(self, that) ==
  IF self = << >> THEN that
  ELSE RevAppend(Tail(self), << Head(self) >> \o that)

\* The loop of Chain::insert: prefix holds the nodes passed, last first.
RECURSIVE InsertLoop(_, _, _, _)
InsertLoop(prefix, self, v, t) ==
  IF self = << >>
  THEN RevAppend(prefix, << Node(v, t, {}) >>)
  ELSE LET n == Head(self)
       IN  CASE Cmp(n.val, v) = "Less" ->
                  RevAppend(prefix, << Node(v, t, {}) >> \o self)
             [] Cmp(n.val, v) = "Equal" ->
                  RevAppend(prefix, << Node(n.val, n.rep, n.set \cup {t}) >> \o Tail(self))
             [] Cmp(n.val, v) = "Greater" ->
                  InsertLoop(<< n >> \o prefix, Tail(self), v, t)

\* debug_assert!( ! set.contains(& t) ) fails in Chain::insert.
AssertFails(self, v, t) ==
  \E i \in DOMAIN self : self[i].val = v /\ t \in self[i].set

Geq_Strict(value, val) == value < val

\* value <= & val in Chain::split_at.
Geq(value, val) == value <= val

\* The loop of Chain::split_at: res holds the representatives passed.
RECURSIVE SplitLoop(_, _, _)
SplitLoop(res, self, value) ==
  IF self = << >> THEN [reps |-> Reverse(res), rest |-> self]
  ELSE IF Geq(value, Head(self).val)
       THEN SplitLoop(Append(res, Head(self).rep), Tail(self), value)
       ELSE [reps |-> Reverse(res), rest |-> self]

NoSplit == [reps |-> << >>, rest |-> << >>]

\* No chain is being built.
ChainIdle ==
  /\ chain = << >>
  /\ build = "none"
  /\ cpc = "idle"
  /\ inserts = 0
  /\ splitv = 0
  /\ split = NoSplit

--------------------------------------------------------------------------
Init ==
  /\ sys \in SysIds
  /\ props \in { ps \in SUBSET PropIds : Cardinality(ps) <= MaxProps }
  /\ conf_max \in {{}, {MaxConf}}
  /\ pc = "mk_solver"
  /\ k = Offset2Init
  /\ live = {}
  /\ actlit = 0
  /\ lit = 0
  /\ inbox = << >>
  /\ falsified = {}
  /\ model = {}
  /\ solverInit = {}
  /\ solverTrans = {}
  /\ solverImpl = {}
  /\ msgsSent = 0
  /\ hist = << >>
  /\ OpIdle
  /\ MergeIdle
  /\ ZipIdle
  /\ StoreIdle
  /\ OffIdle
  /\ FoldIdle
  /\ ChainIdle

inputs == << sys, props, conf_max >>

\* Origin of a forget request: a Forget message, or the falsified properties.
FromMsg == 0
FromSat == 1

CheckSatRequest_StaleLit(ok) == Req("check_sat", ok, k.curr, Actlits, 0)

\* The query of a step: actlits = props.actlits() ; actlits.push(lit) ;
\* solver.check_sat_assuming(actlits, k.curr()) (lines 123-135).
CheckSatRequest(ok) == Req("check_sat", ok, k.curr, Actlits, lit)

KTrueEvent_NextOffset == Event("k_true", k.next, NotInhibited, 0)

\* event.k_true(props.not_inhibited(), k.curr()) (line 171).
KTrueEvent == Event("k_true", k.curr, NotInhibited, 0)

ForgottenAfterSat_Nothing == {}

\* The properties handed to props.forget after a sat answer (line 149).
ForgottenAfterSat == falsified

DisprovedEvent_NextOffset ==
  Event("disproved_at", k.next, falsified, CHOOSE s \in model : TRUE)

\* event.disproved_at(model, falsified, k.curr()) (line 151).
DisprovedEvent ==
  Event("disproved_at", k.curr, falsified, CHOOSE s \in model : TRUE)

solverVars == << solverInit, solverTrans, solverImpl >>

\* Solver::mk (lines 64-66): on Err a lone error event and run returns.
MkSolver ==
  /\ pc = "mk_solver"
  /\ \E ok \in BOOLEAN :
       IF ok
       THEN /\ hist' = hist \o << Req("mk_solver", TRUE, 0, {}, 0) >>
            /\ pc' = "declare_funs"
       ELSE /\ hist' = hist \o << Req("mk_solver", FALSE, 0, {}, 0),
                                  Event("error", 0, {}, 0) >>
            /\ pc' = "returned"
  /\ UNCHANGED << others, inputs, k, live, actlit, lit, inbox, falsified, model,
                  solverVars, msgsSent >>

\* sys.defclare_funs under try_error! (lines 69-71).
DeclareFuns ==
  /\ pc = "declare_funs"
  /\ \E ok \in BOOLEAN :
       IF ok
       THEN /\ hist' = hist \o << Req("declare_funs", TRUE, 0, {}, 0) >>
            /\ pc' = "assert_init"
       ELSE /\ hist' = TryError(hist \o << Req("declare_funs", FALSE, 0, {}, 0) >>)
            /\ pc' = "returned"
  /\ UNCHANGED << others, inputs, k, live, actlit, lit, inbox, falsified, model,
                  solverVars, msgsSent >>

\* sys.assert_init(solver, k) under try_error! (lines 74-76).
AssertInit ==
  /\ pc = "assert_init"
  /\ \E ok \in BOOLEAN :
       IF ok
       THEN /\ hist' = hist \o << Req("assert_init", TRUE, k.curr, {}, 0) >>
            /\ solverInit' = solverInit \cup {k.curr}
            /\ pc' = "mk_props"
       ELSE /\ hist' = TryError(hist \o << Req("assert_init", FALSE, k.curr, {}, 0) >>)
            /\ solverInit' = solverInit
            /\ pc' = "returned"
  /\ UNCHANGED << others, inputs, k, live, actlit, lit, inbox, falsified, model,
                  solverTrans, solverImpl, msgsSent >>

\* PropManager::mk under try_error! (lines 79-82).
MkProps ==
  /\ pc = "mk_props"
  /\ \E ok \in BOOLEAN :
       IF ok
       THEN /\ hist' = hist \o << Req("mk_props", TRUE, k.curr, props, 0) >>
            /\ live' = props
            /\ pc' = "recv"
       ELSE /\ hist' = TryError(hist \o << Req("mk_props", FALSE, k.curr, props, 0) >>)
            /\ live' = live
            /\ pc' = "returned"
  /\ UNCHANGED << others, inputs, k, actlit, lit, inbox, falsified, model,
                  solverVars, msgsSent >>

\* event.recv() at the head of the loop (lines 87-89): None returns from
\* run, Some(msgs) hands the drained messages to the for loop.
Recv ==
  /\ pc = "recv"
  /\ \/ /\ hist' = hist \o << Entry("recv", FALSE, k.curr, {}, 0) >>
        /\ pc' = "returned"
        /\ UNCHANGED << inbox, msgsSent >>
     \/ \E msgs \in SeqsUpTo(MsgDown, MaxMsgs - msgsSent) :
          /\ hist' = hist \o << Entry("recv", TRUE, k.curr, {}, Len(msgs)) >>
          /\ inbox' = msgs
          /\ msgsSent' = msgsSent + Len(msgs)
          /\ pc' = "msgs"
  /\ UNCHANGED << others, inputs, k, live, actlit, lit, falsified, model, solverVars >>

\* MsgDown::Forget(ps) => try_error!(props.forget(solver, ps)) (lines 91-94).
HandleForget ==
  /\ pc = "msgs"
  /\ inbox # << >>
  /\ Head(inbox).tag = "Forget"
  /\ \E ok \in BOOLEAN :
       IF ok
       THEN /\ hist' = hist \o << Req("forget", TRUE, k.curr, Head(inbox).ps, FromMsg) >>
            /\ live' = live \ Head(inbox).ps
            /\ inbox' = Tail(inbox)
            /\ pc' = "msgs"
       ELSE /\ hist' = TryError(hist \o
                         << Req("forget", FALSE, k.curr, Head(inbox).ps, FromMsg) >>)
            /\ live' = live
            /\ inbox' = inbox
            /\ pc' = "returned"
  /\ UNCHANGED << others, inputs, k, actlit, lit, falsified, model, solverVars, msgsSent >>

\* MsgDown::Invariants(_,_) => event.log (lines 95-97).
HandleInvariants ==
  /\ pc = "msgs"
  /\ inbox # << >>
  /\ Head(inbox).tag = "Invariants"
  /\ hist' = hist \o << Event("log", k.curr, {}, 0) >>
  /\ inbox' = Tail(inbox)
  /\ UNCHANGED << others, inputs, pc, k, live, actlit, lit, falsified, model,
                  solverVars, msgsSent >>

HandleUnknown_Fatal ==
  /\ pc = "msgs"
  /\ inbox # << >>
  /\ Head(inbox).tag \notin {"Forget", "Invariants"}
  /\ hist' = TryError(hist \o << Event("error", k.curr, {}, 1) >>)
  /\ pc' = "returned"
  /\ UNCHANGED << others, inputs, k, live, actlit, lit, inbox, falsified, model,
                  solverVars, msgsSent >>

\* _ => event.error("unknown message") (line 98); the loop goes on.
HandleUnknown ==
  /\ pc = "msgs"
  /\ inbox # << >>
  /\ Head(inbox).tag \notin {"Forget", "Invariants"}
  /\ hist' = hist \o << Event("error", k.curr, {}, 1) >>
  /\ inbox' = Tail(inbox)
  /\ UNCHANGED << others, inputs, pc, k, live, actlit, lit, falsified, model,
                  solverVars, msgsSent >>

\* if props.none_left() { event.done_at(k.curr()) ; break } (lines 103-106).
NoneLeftAfterDrain ==
  /\ pc = "msgs"
  /\ inbox = << >>
  /\ IF NoneLeft
     THEN /\ hist' = hist \o << Event("done_at", k.curr, {}, 0) >>
          /\ pc' = "returned"
     ELSE /\ hist' = hist
          /\ pc' = "fresh"
  /\ UNCHANGED << others, inputs, k, live, actlit, lit, inbox, falsified, model,
                  solverVars, msgsSent >>

\* actlit.mk_fresh_declare(solver).unwrap() (line 110): Err panics.
MkFreshDeclare ==
  /\ pc = "fresh"
  /\ \E ok \in BOOLEAN :
       IF ok
       THEN /\ hist' = hist \o << Req("declare_lit", TRUE, k.curr, {}, actlit) >>
            /\ lit' = actlit
            /\ actlit' = actlit + 1
            /\ pc' = "assert_impl"
       ELSE /\ hist' = hist \o << Req("declare_lit", FALSE, k.curr, {}, actlit) >>
            /\ lit' = lit
            /\ actlit' = actlit
            /\ pc' = "panicked"
  /\ UNCHANGED << others, inputs, k, live, inbox, falsified, model, solverVars, msgsSent >>

AssertImpl_ErrorIgnored ==
  /\ pc = "assert_impl"
  /\ \E ok \in BOOLEAN :
       /\ hist' = hist \o << Req("assert_impl", ok, k.curr, OneFalse, lit) >>
       /\ solverImpl' = IF ok
                         THEN solverImpl \cup
                                {[lit |-> lit, ps |-> OneFalse, k |-> k.curr]}
                         ELSE solverImpl
       /\ pc' = "check_sat"
  /\ UNCHANGED << others, inputs, k, live, actlit, lit, inbox, falsified, model,
                  solverInit, solverTrans, msgsSent >>

\* check = actlit.mk_impl(lit, one_prop_false) ; solver.assert(check, k)
\* under try_error! (lines 108, 117-119).
AssertImpl ==
  /\ pc = "assert_impl"
  /\ \E ok \in BOOLEAN :
       IF ok
       THEN /\ hist' = hist \o << Req("assert_impl", TRUE, k.curr, OneFalse, lit) >>
            /\ solverImpl' = solverImpl \cup
                               {[lit |-> lit, ps |-> OneFalse, k |-> k.curr]}
            /\ pc' = "check_sat"
       ELSE /\ hist' = TryError(hist \o
                         << Req("assert_impl", FALSE, k.curr, OneFalse, lit) >>)
            /\ solverImpl' = solverImpl
            /\ pc' = "returned"
  /\ UNCHANGED << others, inputs, k, live, actlit, lit, inbox, falsified, model,
                  solverInit, solverTrans, msgsSent >>

\* solver.check_sat_assuming(actlits, k.curr()) with actlits = props.actlits()
\* plus lit (lines 123-135); Ok(false) emits k_true (lines 170-172); Err emits
\* an error event and breaks (lines 173-178).
CheckSat ==
  /\ pc = "check_sat"
  /\ \/ /\ hist' = hist \o << CheckSatRequest(FALSE),
                              Event("error", k.curr, {}, 0) >>
        /\ model' = model
        /\ pc' = "returned"
     \/ /\ Models(lit, k.curr) = {}
        /\ hist' = hist \o << CheckSatRequest(TRUE),
                              KTrueEvent >>
        /\ model' = {}
        /\ pc' = "none_left"
     \/ \E s \in Models(lit, k.curr) :
          /\ hist' = hist \o << CheckSatRequest(TRUE) >>
          /\ model' = {s}
          /\ pc' = "get_false"
  /\ UNCHANGED << others, inputs, k, live, actlit, lit, inbox, falsified, solverVars,
                  msgsSent >>

\* props.get_false(solver, k) (line 138); Err emits an error event and
\* breaks (lines 162-167).
GetFalsified ==
  /\ pc = "get_false"
  /\ \E ok \in BOOLEAN :
       IF ok
       THEN /\ hist' = hist \o << Req("get_false", TRUE, k.curr,
                                      UNION { GetFalse(s) : s \in model }, 0) >>
            /\ falsified' = UNION { GetFalse(s) : s \in model }
            /\ pc' = "get_model"
       ELSE /\ hist' = hist \o << Req("get_false", FALSE, k.curr, {}, 0),
                                  Event("error", k.curr, {}, 0) >>
            /\ falsified' = falsified
            /\ pc' = "returned"
  /\ UNCHANGED << others, inputs, k, live, actlit, lit, inbox, model, solverVars, msgsSent >>

\* solver.get_model() (line 146); Err emits error and done(Error) and breaks
\* (lines 153-159).
GetModel ==
  /\ pc = "get_model"
  /\ \E ok \in BOOLEAN :
       IF ok
       THEN /\ hist' = hist \o << Req("get_model", TRUE, k.curr, {}, 0) >>
            /\ pc' = "forget_falsified"
       ELSE /\ hist' = TryError(hist \o << Req("get_model", FALSE, k.curr, {}, 0) >>)
            /\ pc' = "returned"
  /\ UNCHANGED << others, inputs, k, live, actlit, lit, inbox, falsified, model,
                  solverVars, msgsSent >>

\* try_error!(props.forget(solver, falsified)) then
\* event.disproved_at(model, falsified, k.curr()) (lines 148-151).
ForgetFalsified ==
  /\ pc = "forget_falsified"
  /\ \E ok \in BOOLEAN :
       IF ok
       THEN /\ hist' = hist \o
                 << Req("forget", TRUE, k.curr, ForgottenAfterSat, FromSat),
                    DisprovedEvent >>
            /\ live' = live \ ForgottenAfterSat
            /\ pc' = "none_left"
       ELSE /\ hist' = TryError(hist \o
                         << Req("forget", FALSE, k.curr, ForgottenAfterSat, FromSat) >>)
            /\ live' = live
            /\ pc' = "returned"
  /\ UNCHANGED << others, inputs, k, actlit, lit, inbox, falsified, model, solverVars,
                  msgsSent >>

NoneLeftAfterCheck_NoBreak ==
  /\ pc = "none_left"
  /\ hist' = IF NoneLeft THEN hist \o << Event("done_at", k.curr, {}, 0) >>
                         ELSE hist
  /\ pc' = "unroll"
  /\ UNCHANGED << others, inputs, k, live, actlit, lit, inbox, falsified, model,
                  solverVars, msgsSent >>

\* if props.none_left() { event.done_at(k.curr()) ; break } (lines 181-184).
NoneLeftAfterCheck ==
  /\ pc = "none_left"
  /\ IF NoneLeft
     THEN /\ hist' = hist \o << Event("done_at", k.curr, {}, 0) >>
          /\ pc' = "returned"
     ELSE /\ hist' = hist
          /\ pc' = "unroll"
  /\ UNCHANGED << others, inputs, k, live, actlit, lit, inbox, falsified, model,
                  solverVars, msgsSent >>

\* try_error!(sys.unroll(solver, k)) ; k = k.nxt() (lines 186-188).
Unroll ==
  /\ pc = "unroll"
  /\ k.curr < MaxK
  /\ \E ok \in BOOLEAN :
       IF ok
       THEN /\ hist' = hist \o << Req("unroll", TRUE, k.curr, {}, 0) >>
            /\ solverTrans' = solverTrans \cup {k.curr}
            /\ k' = Offset2Nxt(k)
            /\ pc' = "recv"
       ELSE /\ hist' = TryError(hist \o << Req("unroll", FALSE, k.curr, {}, 0) >>)
            /\ solverTrans' = solverTrans
            /\ k' = k
            /\ pc' = "returned"
  /\ UNCHANGED << others, inputs, live, actlit, lit, inbox, falsified, model,
                  solverInit, solverImpl, msgsSent >>

Next ==
  \/ MkSolver
  \/ DeclareFuns
  \/ AssertInit
  \/ MkProps
  \/ Recv
  \/ HandleForget
  \/ HandleInvariants
  \/ HandleUnknown
  \/ NoneLeftAfterDrain
  \/ MkFreshDeclare
  \/ AssertImpl
  \/ CheckSat
  \/ GetFalsified
  \/ GetModel
  \/ ForgetFalsified
  \/ NoneLeftAfterCheck
  \/ Unroll

Spec == Init /\ [][Next]_vars

--------------------------------------------------------------------------
\* Bmc::run is not running.
BmcIdle ==
  /\ sys = "counter"
  /\ props = {}
  /\ conf_max = {}
  /\ pc = "idle"
  /\ k = Offset2Init
  /\ live = {}
  /\ actlit = 0
  /\ lit = 0
  /\ inbox = << >>
  /\ falsified = {}
  /\ model = {}
  /\ solverInit = {}
  /\ solverTrans = {}
  /\ solverImpl = {}
  /\ msgsSent = 0
  /\ hist = << >>

--------------------------------------------------------------------------
\* The operators applied to constants: an operator and an argument list
\* are drawn, then type_check is applied to the types of the arguments and
\* eval to the arguments, in either order.

InitOp ==
  /\ BmcIdle
  /\ MergeIdle
  /\ ZipIdle
  /\ StoreIdle
  /\ OffIdle
  /\ FoldIdle
  /\ ChainIdle
  /\ operator \in Operators
  /\ args \in SeqsUpTo(Csts, MaxArgs)
  /\ tc = NoTc
  /\ ev = NoEv

\* operator.type_check(sig) with sig the types of args.
DoTypeCheck ==
  /\ tc = NoTc
  /\ tc' = TypeCheck(operator, TypesOf(args))
  /\ UNCHANGED << notOp, operator, args, ev >>

\* operator.eval(factory, args).
DoEval ==
  /\ ev = NoEv
  /\ ev' = Eval(operator, args)
  /\ UNCHANGED << notOp, operator, args, tc >>

NextOp ==
  \/ DoTypeCheck
  \/ DoEval

SpecOp == InitOp /\ [][NextOp]_vars

--------------------------------------------------------------------------
\* The merge of two symbolic offsets: two well-formed offsets are drawn,
\* then merge is applied.

InitMerge ==
  /\ BmcIdle
  /\ OpIdle
  /\ ZipIdle
  /\ StoreIdle
  /\ OffIdle
  /\ FoldIdle
  /\ ChainIdle
  /\ lhs \in { a \in Smt2Offsets : WellFormed(a) }
  /\ rhs \in { a \in Smt2Offsets : WellFormed(a) }
  /\ merged = NoMerge

\* lhs.merge(& rhs).
DoMerge ==
  /\ merged = NoMerge
  /\ merged' = Merge(lhs, rhs)
  /\ UNCHANGED << notMerge, lhs, rhs >>

NextMerge == DoMerge

SpecMerge == InitMerge /\ [][NextMerge]_vars

--------------------------------------------------------------------------
\* The zipper: a term is drawn and handed to bump, and the term bump returns
\* to debump; or to debump alone; or to var_map with a closure that keeps
\* every leaf.  Each call is zip::var_map: go_down to a leaf, the
\* closure on the leaf, go_up to the next unexplored sibling or to the top.

\* The calls made on a term, in order: bump and debump of its result, debump
\* alone, var_map with a closure that keeps every leaf.
ZipCalls == {<< "bump", "debump" >>, << "debump" >>, << "keep" >>}

InitZip ==
  /\ BmcIdle
  /\ OpIdle
  /\ MergeIdle
  /\ StoreIdle
  /\ OffIdle
  /\ FoldIdle
  /\ ChainIdle
  /\ term \in Terms
  /\ calls \in ZipCalls
  /\ todo = calls
  /\ path = << >>
  /\ curr = term
  /\ zpc = "down"
  /\ results = << >>

\* One turn of the loop of Zip::go_down (lines 1133-1178): an application
\* to nothing panics, a leaf returns to var_map.
GoDown ==
  /\ zpc = "down"
  /\ CASE curr.node \in {"Op", "App"} ->
            LET terms == Reverse(curr.kids)
            IN  IF terms # << >>
                THEN /\ path' = Append(path,
                                  IF curr.node = "Op"
                                  THEN OpStep(curr.head, << >>, Front(terms))
                                  ELSE AppStep(curr.head, << >>, Front(terms)))
                     /\ curr' = Last(terms)
                     /\ zpc' = "down"
                ELSE /\ zpc' = "panic"
                     /\ UNCHANGED << path, curr >>
       [] curr.node = "Forall" ->
            /\ path' = Append(path, ForallStep(curr.binds))
            /\ curr' = Body(curr)
            /\ zpc' = "down"
       [] curr.node = "Exists" ->
            /\ path' = Append(path, ExistsStep(curr.binds))
            /\ curr' = Body(curr)
            /\ zpc' = "down"
       [] curr.node = "Let" ->
            /\ path' = Append(path, Let1Step(LetBinds(curr)))
            /\ curr' = Body(curr)
            /\ zpc' = "down"
       [] OTHER ->
            /\ zpc' = "map"
            /\ UNCHANGED << path, curr >>
  /\ UNCHANGED << notZip, term, calls, todo, results >>

\* zip.curr = match f(cons, & zip.curr) (lines 1273-1277): Err returns from
\* var_map.
ApplyF ==
  /\ zpc = "map"
  /\ LET r == Closure(Head(todo), curr)
     IN  IF r.ok
         THEN /\ curr' = IF r.some THEN r.term ELSE curr
              /\ zpc' = "up"
         ELSE /\ curr' = curr
              /\ zpc' = "err"
  /\ UNCHANGED << notZip, term, calls, todo, path, results >>

\* One turn of the loop of Zip::go_up (lines 1183-1249): NYet goes down
\* again into the next sibling, Done returns the term from var_map, and the
\* next call, if any, starts on it.
GoUp ==
  /\ zpc = "up"
  /\ IF path = << >>
     THEN /\ results' = Append(results, curr)
          /\ todo' = Tail(todo)
          /\ zpc' = IF Len(todo) > 1 THEN "down" ELSE "done"
          /\ UNCHANGED << path, curr >>
     ELSE LET s    == Last(path)
              rest == Front(path)
          IN  /\ UNCHANGED << todo, results >>
              /\ CASE s.step \in {"Op", "App"} ->
                        LET lft == Append(s.lft, curr)
                        IN  IF s.rgt # << >>
                            THEN /\ curr' = Last(s.rgt)
                                 /\ path' = Append(rest,
                                              IF s.step = "Op"
                                              THEN OpStep(s.head, lft, Front(s.rgt))
                                              ELSE AppStep(s.head, lft, Front(s.rgt)))
                                 /\ zpc' = "down"
                            ELSE /\ curr' = IF s.step = "Op"
                                            THEN OpT(s.head, lft)
                                            ELSE AppT(s.head, lft)
                                 /\ path' = rest
                                 /\ zpc' = "up"
                   [] s.step = "Forall" ->
                        /\ curr' = MkForall(s.binds, curr)
                        /\ path' = rest
                        /\ zpc' = "up"
                   [] s.step = "Exists" ->
                        /\ curr' = MkExists(s.binds, curr)
                        /\ path' = rest
                        /\ zpc' = "up"
                   [] s.step = "Let1" ->
                        IF s.binds # << >>
                        THEN /\ path' = Append(rest,
                                          Let2Step(<< >>, Last(s.binds).sym,
                                                   Front(s.binds), curr))
                             /\ curr' = Last(s.binds).val
                             /\ zpc' = "down"
                        ELSE /\ path' = rest
                             /\ curr' = curr
                             /\ zpc' = "up"
                   [] s.step = "Let2" ->
                        LET lft == Append(s.lft, [sym |-> s.sym, val |-> curr])
                        IN  IF s.rgt # << >>
                            THEN /\ curr' = Last(s.rgt).val
                                 /\ path' = Append(rest,
                                              Let2Step(lft, Last(s.rgt).sym,
                                                       Front(s.rgt), s.t))
                                 /\ zpc' = "down"
                            ELSE /\ curr' = MkLet(lft, s.t)
                                 /\ path' = rest
                                 /\ zpc' = "up"
  /\ UNCHANGED << notZip, term, calls >>

NextZip ==
  \/ GoDown
  \/ ApplyF
  \/ GoUp

SpecZip == InitZip /\ [][NextZip]_vars

--------------------------------------------------------------------------
\* The term store under concurrent producers: each producer calls makers
\* one after the other; a call takes the mutex, looks its shape up in the
\* table, inserts it under a fresh uid when it is not there, releases the
\* mutex and returns the handle.

InitStore ==
  /\ BmcIdle
  /\ OpIdle
  /\ MergeIdle
  /\ ZipIdle
  /\ StoreIdle
  /\ OffIdle
  /\ FoldIdle
  /\ ChainIdle

\* The handles published so far.
Handles == { c.handle : c \in returned }

\* A producer calls var, cst, op, app, or forall, exists or let_b with a
\* binding: self.mk(shape) (term.rs:911-1018), with no test on the argument
\* list of op and app.
Mk(p) ==
  /\ prod[p].ppc = "idle"
  /\ started < MaxCalls
  /\ \E sh \in ShapesOver(Handles) :
       /\ GoesToMk(sh)
       /\ prod' = [prod EXCEPT ![p] = [ppc |-> "lock", shape |-> sh, handle |-> 0]]
  /\ started' = started + 1
  /\ UNCHANGED << notStore, consign, made, mutex, returned, collapsed >>

\* A producer calls forall, exists or let_b with no binding: the body is
\* returned at once, the table is not looked at (term.rs:1001-1018).
MkNoBind(p) ==
  /\ prod[p].ppc = "idle"
  /\ started < MaxCalls
  /\ \E sh \in ShapesOver(Handles) :
       /\ ~GoesToMk(sh)
       /\ collapsed' = collapsed \cup
                          {[p |-> p, shape |-> sh, handle |-> sh.kids[Len(sh.kids)]]}
  /\ started' = started + 1
  /\ UNCHANGED << notStore, consign, made, mutex, prod, returned >>

Lock_NoMutex(p) ==
  /\ prod[p].ppc = "lock"
  /\ mutex' = p
  /\ prod' = [prod EXCEPT ![p].ppc = "get"]
  /\ UNCHANGED << notStore, consign, made, started, returned, collapsed >>

\* The Mutex of the HConsign is taken (base.rs:236).
Lock(p) ==
  /\ prod[p].ppc = "lock"
  /\ mutex = "free"
  /\ mutex' = p
  /\ prod' = [prod EXCEPT ![p].ppc = "get"]
  /\ UNCHANGED << notStore, consign, made, started, returned, collapsed >>

\* The shape is looked up in the table.
Get(p) ==
  /\ prod[p].ppc = "get"
  /\ IF prod[p].shape \in DOMAIN consign
     THEN prod' = [prod EXCEPT ![p].ppc = "unlock",
                               ![p].handle = consign[prod[p].shape]]
     ELSE prod' = [prod EXCEPT ![p].ppc = "insert"]
  /\ UNCHANGED << notStore, consign, made, mutex, started, returned, collapsed >>

\* A shape that was not found is stored under a fresh uid.
Insert(p) ==
  /\ prod[p].ppc = "insert"
  /\ made' = Append(made, prod[p].shape)
  /\ consign' = [s \in DOMAIN consign \cup {prod[p].shape} |->
                   IF s = prod[p].shape THEN Len(made) + 1 ELSE consign[s]]
  /\ prod' = [prod EXCEPT ![p].ppc = "unlock", ![p].handle = Len(made) + 1]
  /\ UNCHANGED << notStore, mutex, started, returned, collapsed >>

\* The mutex is released and the handle returned to the producer.
Unlock(p) ==
  /\ prod[p].ppc = "unlock"
  /\ mutex' = "free"
  /\ returned' = returned \cup
                   {[p |-> p, shape |-> prod[p].shape, handle |-> prod[p].handle]}
  /\ prod' = [prod EXCEPT ![p] = NoCall]
  /\ UNCHANGED << notStore, consign, made, started, collapsed >>

NextStore ==
  \E p \in Producers :
    \/ Mk(p)
    \/ MkNoBind(p)
    \/ Lock(p)
    \/ Get(p)
    \/ Insert(p)
    \/ Unlock(p)

SpecStore == InitStore /\ [][NextStore]_vars

--------------------------------------------------------------------------
\* Offset2 under nxt: an Offset2 reached from init is drawn, near 0 or near
\* the end of the u16 range, and nxt is called on it again and again.  An
\* addition that overflows panics in a build with overflow checks and wraps
\* around in a build without.

InitOffset ==
  /\ BmcIdle
  /\ OpIdle
  /\ MergeIdle
  /\ ZipIdle
  /\ StoreIdle
  /\ FoldIdle
  /\ ChainIdle
  /\ off2 \in {Offset2At(n) : n \in 0 .. MaxStart}
                \cup {Offset2At(U16Max - 1 - n) : n \in 0 .. MaxStart}
  /\ ostat = "ok"
  /\ nxts = 0

\* Offset2::nxt: Offset2{ curr: self.curr.nxt(), next: self.next.nxt() }.
Nxt ==
  /\ ostat = "ok"
  /\ nxts < MaxNxt
  /\ nxts' = nxts + 1
  /\ \/ /\ off2' = Offset2Nxt(off2)
        /\ ostat' = "ok"
     \/ /\ Overflows(off2.curr) \/ Overflows(off2.next)
        /\ off2' = off2
        /\ ostat' = "panicked"
  /\ UNCHANGED notOff

NextOffset == Nxt

SpecOffset == InitOffset /\ [][NextOffset]_vars

--------------------------------------------------------------------------
\* eval on a term: fold_info with eval_term.  FoldStart is zip_down on the
\* term then the function on the first Step; FoldUp is one turn of the loop,
\* zip_up on the value then the function on the Step it gives.

InitFold ==
  /\ BmcIdle
  /\ OpIdle
  /\ MergeIdle
  /\ ZipIdle
  /\ StoreIdle
  /\ OffIdle
  /\ ChainIdle
  /\ fterm \in EvalTerms
  /\ fmodel \in Valuations
  /\ fpath = << >>
  /\ bindings = << >>
  /\ quantified = << >>
  /\ fstep = NoStep
  /\ fval = NoEv
  /\ fpc = "start"

\* The Zip after zip_down or zip_up gave z, and the function on its Step.
Folded(z) ==
  /\ fpath' = z.path
  /\ bindings' = z.bindings
  /\ quantified' = z.quantified
  /\ fstep' = z.step
  /\ IF z.panic # ""
     THEN fval' = NoEv /\ fpc' = z.panic
     ELSE LET r == EvalTerm(fmodel, z.step, z.bindings, z.quantified)
          IN  fval' = r /\ fpc' = IF r.ok THEN "up" ELSE "failed"

FoldStart ==
  /\ fpc = "start"
  /\ Folded(ZipDown2(<< >>, << >>, << >>, fterm))
  /\ UNCHANGED << notFold, fterm, fmodel >>

FoldUp ==
  /\ fpc = "up"
  /\ fpath # << >>
  /\ Folded(ZipUp2(fpath, bindings, quantified, fval.cst))
  /\ UNCHANGED << notFold, fterm, fmodel >>

\* zip_up on the empty path: Done(t), the fold returns Ok(t).
FoldDone ==
  /\ fpc = "up"
  /\ fpath = << >>
  /\ fpc' = "done"
  /\ UNCHANGED << notFold, fterm, fmodel, fpath, bindings, quantified, fstep, fval >>

NextFold ==
  \/ FoldStart
  \/ FoldUp
  \/ FoldDone

SpecFold == InitFold /\ [][NextFold]_vars

--------------------------------------------------------------------------
\* A chain built by insert from Chain::nil(), then split once.

InitChain ==
  /\ BmcIdle
  /\ OpIdle
  /\ MergeIdle
  /\ ZipIdle
  /\ StoreIdle
  /\ OffIdle
  /\ FoldIdle
  /\ chain = << >>
  /\ build \in {"debug", "release"}
  /\ cpc = "ok"
  /\ inserts = 0
  /\ splitv = 0
  /\ split = NoSplit

\* chain.insert(v, t): the debug build panics on a term its node's set
\* already holds, the release build goes on.
ChainInsert ==
  /\ cpc = "ok"
  /\ inserts < MaxInserts
  /\ \E v \in Vals : \E t \in ChainTerms :
       IF build = "debug" /\ AssertFails(chain, v, t)
       THEN cpc' = "panicked" /\ chain' = chain
       ELSE cpc' = "ok" /\ chain' = InsertLoop(<< >>, chain, v, t)
  /\ inserts' = inserts + 1
  /\ UNCHANGED << notChain, build, splitv, split >>

\* chain.split_at(value); chain keeps what was split.
ChainSplitAt ==
  /\ cpc = "ok"
  /\ \E value \in Vals :
       /\ splitv' = value
       /\ split' = SplitLoop(<< >>, chain, value)
  /\ cpc' = "split"
  /\ UNCHANGED << notChain, chain, build, inserts >>

NextChain ==
  \/ ChainInsert
  \/ ChainSplitAt

SpecChain == InitChain /\ [][NextChain]_vars

--------------------------------------------------------------------------
\* Reading the history.

Idx == DOMAIN hist

IdxOf(ops) == { i \in Idx : hist[i].op \in ops }

Stopped == pc \in {"returned", "panicked"}

\* A solver request that failed.
Failed(i) == hist[i].op \in SolverOps /\ ~hist[i].ok

NoSolverError == \A i \in Idx : ~Failed(i)

NoForgetMsg == \A i \in Idx : ~(hist[i].op = "forget" /\ hist[i].x = FromMsg)

NoRecvNone == \A i \in Idx : ~(hist[i].op = "recv" /\ ~hist[i].ok)

\* The k_true and disproved_at events of the run, in order.
RECURSIVE VerdictsUpTo(_, _)
VerdictsUpTo(h, n) ==
  IF n = 0 THEN << >>
  ELSE IF h[n].op \in {"k_true", "disproved_at"}
       THEN Append(VerdictsUpTo(h, n - 1),
                   [op |-> h[n].op, k |-> h[n].k, ps |-> h[n].ps])
       ELSE VerdictsUpTo(h, n - 1)

Verdicts(h) == VerdictsUpTo(h, Len(h))

IsPrefix(a, b) == Len(a) <= Len(b) /\ \A i \in 1 .. Len(a) : a[i] = b[i]

\* Depths at most MaxK at which p is violated in some reachable state.
ViolatedAt(p) == { j \in 0 .. MaxK : ~(Reach(sys, j) \subseteq PropBody(p)) }

FirstViolation(p) == CHOOSE d \in ViolatedAt(p) : \A j \in ViolatedAt(p) : d <= j

\* k_true at 0 .. d-1, then disproved_at naming p at depth d.
ScenarioVerdicts(p, d) ==
  [ i \in 1 .. d + 1 |->
      IF i <= d THEN [op |-> "k_true", k |-> i - 1, ps |-> {p}]
      ELSE [op |-> "disproved_at", k |-> d, ps |-> {p}] ]

--------------------------------------------------------------------------
\* C1: every k_true(ps, k) event names only properties that hold in every
\* state reachable in 0..k steps.  Stated as the claim; the run of the
\* diamond system with {ne1, ne2} violates it.
C1_KTrueHoldsThrough ==
  \A i \in IdxOf({"k_true"}) :
    \A p \in hist[i].ps : HoldsThrough(sys, p, hist[i].k)

C3_MaxDepthBoundsRun ==
  \A m \in conf_max :
    (\A p \in props : HoldsThrough(sys, p, m)) =>
      /\ \A i \in IdxOf({"assert_impl", "check_sat"}) : hist[i].k <= m
      /\ \A i \in IdxOf({"unroll"}) : hist[i].ok => hist[i].k < m

\* C4: a run that has stopped has reported exactly one kind of outcome among
\* done_at, disproved_at and error.
C4_ExactlyOneOutcome ==
  Stopped =>
    Cardinality({ hist[i].op : i \in IdxOf({"done_at", "disproved_at", "error"}) }) = 1

\* C5: a failed solver request is followed at once by an error event and by
\* no further solver request, and the run has then returned (never panicked).
C5_SolverErrorsFatal ==
  /\ pc # "panicked"
  /\ \A i \in Idx :
       Failed(i) =>
         /\ i < Len(hist)
         /\ hist[i + 1].op = "error"
         /\ \A j \in Idx : j > i => hist[j].op \notin SolverOps
         /\ pc = "returned"

--------------------------------------------------------------------------
\* More readings of the history.

\* Entry i takes p out of the live set: an accepted Forget message naming
\* it, or the disproved_at event reporting it.
Leaves(i, p) ==
  \/ hist[i].op = "forget" /\ hist[i].ok /\ hist[i].x = FromMsg /\ p \in hist[i].ps
  \/ hist[i].op = "disproved_at" /\ p \in hist[i].ps

\* The last entry before j whose operation is in ops (0 when none).
LastBefore(j, ops) ==
  LET c == { i \in IdxOf(ops) : i < j }
  IN  IF c = {} THEN 0 ELSE CHOOSE i \in c : \A i2 \in c : i2 <= i

\* The properties tracked just before entry j, read from the history.
LiveAt(j) ==
  props \ UNION { hist[i].ps : i \in { i2 \in IdxOf({"forget"}) : i2 < j /\ hist[i2].ok } }

\* Entries the draining of the control channel produces.
DrainEntry(e) ==
  \/ e.op = "recv" /\ e.ok
  \/ e.op = "forget" /\ e.ok /\ e.x = FromMsg
  \/ e.op = "log"
  \/ e.op = "error" /\ e.x = 1

\* C6: after an entry that takes p out of the live set, no assertion, query,
\* k_true or disproved_at names p; and everything asserted is still asserted.
C6_ForgottenNeverChecked ==
  /\ \A j \in IdxOf({"assert_impl", "check_sat", "k_true", "disproved_at"}) :
       \A p \in hist[j].ps : \A i \in 1 .. j - 1 : ~Leaves(i, p)
  /\ \A i \in Idx :
       hist[i].ok =>
         /\ hist[i].op = "assert_init" => hist[i].k \in solverInit
         /\ hist[i].op = "unroll" => hist[i].k \in solverTrans
         /\ hist[i].op = "assert_impl" =>
              [lit |-> hist[i].x, ps |-> hist[i].ps, k |-> hist[i].k] \in solverImpl

C6_Witness ==
  \E i \in Idx : \E j \in Idx :
    /\ i < j
    /\ hist[i].op = "forget" /\ hist[i].ok /\ hist[i].x = FromMsg
    /\ hist[i].ps # {} /\ hist[i].ps \subseteq LiveAt(i)
    /\ hist[j].op = "k_true" /\ hist[j].k > hist[i].k

\* C7: every query comes after the successful assertion of the initial state
\* at offset 0 and after the successful assertion of its own step's
\* implication; every unrolling of offset k comes after the query at k.
C7_Ordering ==
  LET checks  == IdxOf({"check_sat"})
      inits   == IdxOf({"assert_init"})
      asserts == IdxOf({"assert_impl"})
  IN  /\ \A j \in checks :
           /\ \E i \in inits : i < j /\ hist[i].ok /\ hist[i].k = 0
           /\ \E i \in asserts :
                /\ i < j /\ hist[i].ok
                /\ hist[i].k = hist[j].k /\ hist[i].x = hist[j].x
                /\ hist[i].ps = hist[j].ps
      /\ \A j \in IdxOf({"unroll"}) :
           \E i \in checks : i < j /\ hist[i].ok /\ hist[i].k = hist[j].k

C7_Witness ==
  \E j \in IdxOf({"unroll"}) : hist[j].ok /\ hist[j].k = 1 /\ pc = "check_sat"

\* C8: one query per offset at most; its assumptions are the literal declared
\* in its own step, never declared before, and the tracked properties; the
\* channel is read once per offset, before the step's assertion, and never
\* between the assertion and the query.
C8_OneQueryPerStep ==
  LET checks   == IdxOf({"check_sat"})
      declares == IdxOf({"declare_lit"})
      recvs    == IdxOf({"recv"})
      asserts  == IdxOf({"assert_impl"})
  IN  /\ \A i \in checks : \A j \in checks : hist[i].k = hist[j].k => i = j
      /\ \A j \in checks :
           LET d == LastBefore(j, {"declare_lit"})
           IN  /\ d # 0
               /\ hist[d].ok /\ hist[d].k = hist[j].k /\ hist[d].x = hist[j].x
               /\ \A i \in declares : i < d => hist[i].x # hist[d].x
               /\ hist[j].ps = LiveAt(j)
      /\ \A i \in recvs : \A j \in recvs : hist[i].k = hist[j].k => i = j
      /\ \A a \in asserts :
           /\ \E r \in recvs : r < a /\ hist[r].ok /\ hist[r].k = hist[a].k
           /\ \A r \in recvs : \A c \in checks :
                hist[c].k = hist[a].k => ~(a < r /\ r < c)

C8_Witness ==
  \E j \in IdxOf({"check_sat"}) :
    /\ hist[j].ok /\ hist[j].k = 2 /\ hist[j].x = 2
    /\ Cardinality(hist[j].ps) = 2

\* C9: a disproved_at event names exactly the set its step's get_false
\* returned, at the offset of its step's query; once it is emitted, and until
\* the next step begins, the tracked set is the queried set minus that set.
C9_DisprovedExact ==
  \A j \in IdxOf({"disproved_at"}) :
    LET c == LastBefore(j, {"check_sat"})
        g == LastBefore(j, {"get_false"})
    IN  /\ c # 0 /\ c < g
        /\ hist[c].ok /\ hist[g].ok
        /\ hist[j].ps = hist[g].ps
        /\ hist[j].k = hist[c].k
        /\ (\/ j = Len(hist)
            \/ (j = Len(hist) - 1 /\ hist[Len(hist)].op = "unroll" /\ pc = "recv"))
           => live = hist[c].ps \ hist[j].ps

C9_Witness ==
  /\ pc = "recv"
  /\ live # {}
  /\ hist[Len(hist)].op = "unroll"
  /\ hist[Len(hist) - 1].op = "disproved_at"
  /\ hist[Len(hist) - 1].k = 1

\* C10: done_at is the last event of a run that returned, is emitted at the
\* current offset with nothing tracked, right after the draining or right
\* after disproved_at; and the run never goes on with nothing tracked.
C10_DoneAtExactly ==
  /\ \A i \in IdxOf({"done_at"}) :
       /\ i = Len(hist) /\ i > 1
       /\ pc = "returned"
       /\ live = {}
       /\ hist[i].k = k.curr
       /\ \/ DrainEntry(hist[i - 1]) /\ hist[i - 1].k = k.curr
          \/ hist[i - 1].op = "disproved_at" /\ hist[i - 1].k = k.curr
  /\ live = {} =>
       /\ pc \notin {"fresh", "assert_impl", "check_sat", "get_false", "get_model",
                     "forget_falsified", "unroll"}
       /\ pc = "recv" => k.curr = 0

C10_Witness ==
  /\ pc = "returned"
  /\ hist[Len(hist)].op = "done_at"
  /\ hist[Len(hist)].k = 2
  /\ hist[Len(hist) - 1].op = "forget"

\* C11: an unknown control message leaves the tracked set and the offset as
\* they were and does not stop the run: its error event is followed, at the
\* same offset, by the rest of the draining and then by the step's literal
\* (or by done_at when nothing is tracked), and the assertion and the query of
\* that offset name the tracked properties as if it had not been received.
C11_UnknownIgnored ==
  LET unknowns == { i \in IdxOf({"error"}) : hist[i].x = 1 }
      steps    == IdxOf({"assert_impl", "check_sat"})
  IN  \A i \in unknowns :
        /\ i > 1
        /\ DrainEntry(hist[i - 1]) /\ hist[i - 1].k = hist[i].k
        /\ IF i = Len(hist)
           THEN pc \in {"msgs", "fresh"} /\ k.curr = hist[i].k /\ live = LiveAt(i)
           ELSE /\ hist[i + 1].k = hist[i].k
                /\ \/ DrainEntry(hist[i + 1]) /\ hist[i + 1].op # "recv"
                   \/ hist[i + 1].op = "forget" /\ hist[i + 1].x = FromMsg
                   \/ hist[i + 1].op = "done_at" /\ LiveAt(i + 1) = {}
                   \/ hist[i + 1].op = "declare_lit" /\ LiveAt(i + 1) # {}
        /\ \A a \in steps :
             hist[a].k = hist[i].k => a > i /\ hist[a].ps = LiveAt(a)

C11_Witness ==
  \E i \in IdxOf({"error"}) : \E j \in IdxOf({"check_sat"}) :
    /\ hist[i].x = 1 /\ hist[i].k = 1
    /\ i < j /\ hist[j].ok /\ hist[j].k = 1 /\ hist[j].ps # {}

--------------------------------------------------------------------------
\* Claims on the operators (specification SpecOp).

AllBool(as) == \A i \in DOMAIN as : as[i].typ = "Bool"

\* C14: when type_check accepts the types of the arguments with result type
\* T, eval on the arguments returns a constant of type T and no error.
\* Stated as the claim; Le applied to one Int is accepted with Bool and its
\* evaluation is an arity error.
C14_TypeCheckedEvaluates ==
  (tc.ok /\ ev # NoEv) => (ev.ok /\ ev.cst.typ = tc.typ)

\* C15: on a non-empty list of boolean constants And evaluates to their
\* conjunction and Or to their disjunction; on two boolean constants Impl
\* evaluates to (not a) or b and Xor to a differs from b.  Stated as the
\* claim; Or applied to false alone evaluates to true.
C15_BooleanTables ==
  (ev # NoEv /\ Len(args) >= 1 /\ AllBool(args)) =>
    /\ operator = "And" =>
         ev = EvOk(BoolCst(\A i \in DOMAIN args : IsTrue(args[i])))
    /\ operator = "Or" =>
         ev = EvOk(BoolCst(\E i \in DOMAIN args : IsTrue(args[i])))
    /\ (operator = "Impl" /\ Len(args) = 2) =>
         ev = EvOk(BoolCst(~IsTrue(args[1]) \/ IsTrue(args[2])))
    /\ (operator = "Xor" /\ Len(args) = 2) =>
         ev = EvOk(BoolCst(IsTrue(args[1]) # IsTrue(args[2])))

\* C16: And, Or, Impl and Xor applied to a list holding a non-boolean
\* constant evaluate to a type error naming the position of the first
\* non-boolean argument, whatever precedes it.  Stated as the claim; Impl
\* applied to (true, false, 0) evaluates to false.
C16_FullScan ==
  (/\ ev # NoEv
   /\ operator \in {"And", "Or", "Impl", "Xor"}
   /\ ~AllBool(args)) =>
    ev = EvErr("OpTypeError", FirstNot(TypesOf(args), "Bool"))

\* C17: an operator whose arity is Some(n) has every signature of another
\* length rejected by type_check.  Stated as the claim; Le applied to one
\* Int is accepted.
C17_ArityEnforced ==
  (tc # NoTc /\ Arity(operator) # NoArity /\ Len(args) # Arity(operator)) =>
    ~tc.ok

\* C18: when an argument's type differs from the first argument's type, Eq
\* and Distinct are both rejected by type_check with a tagged error, and the
\* two tags name the same position.  Stated as the claim; on (Int, Bool) Eq
\* is tagged 0 and Distinct is tagged 1.
C18_EqDistinctSamePosition ==
  (/\ tc # NoTc
   /\ operator \in {"Eq", "Distinct"}
   /\ FirstOther(TypesOf(args)) # 0) =>
    /\ ~tc.ok /\ tc.tagged
    /\ tc.pos = TypeCheck(IF operator = "Eq" THEN "Distinct" ELSE "Eq",
                          TypesOf(args)).pos

--------------------------------------------------------------------------
\* Claims on the symbolic offsets (specification SpecMerge).

\* C20: on two well-formed symbolic offsets, in either order, merge returns
\* the operand when both are equal, the other operand when one is No,
\* Two(min, max) for two different One, the Two operand when the other is
\* One of one of its bounds, and fails for a One that is neither bound and
\* for two different Two; every Two it returns has lo < hi.
C20_MergeTable ==
  LET a   == lhs
      b   == rhs
      min == IF a.lo < b.lo THEN a.lo ELSE b.lo
      max == IF a.lo < b.lo THEN b.lo ELSE a.lo
      two == IF a.tag = "Two" THEN a ELSE b
      one == IF a.tag = "Two" THEN b ELSE a
      expected ==
        IF a = b THEN a
        ELSE IF a.tag = "No" THEN b
        ELSE IF b.tag = "No" THEN a
        ELSE IF a.tag = "One" /\ b.tag = "One" THEN Two(min, max)
        ELSE IF a.tag = "Two" /\ b.tag = "Two" THEN MergeFails
        ELSE IF one.lo \in {two.lo, two.hi} THEN two ELSE MergeFails
  IN  merged # NoMerge =>
        /\ merged = expected
        /\ merged = Merge(rhs, lhs)
        /\ WellFormed(merged)

C20_Witness ==
  /\ lhs = One(2) /\ rhs = One(1)
  /\ merged = Two(1, 2)

--------------------------------------------------------------------------
\* Claims on the zipper (specification SpecZip).

\* C13: for a term whose state variables are all current-state variables,
\* bump and then debump both return a term, never an error or a crash, and
\* the term debump returns is the term given to bump.  Stated as the claim;
\* on a term holding an application to nothing the traversal of bump panics.
C13_DebumpBump ==
  (calls = << "bump", "debump" >> /\ OnlyCurr(term)) =>
    /\ zpc \notin {"err", "panic"}
    /\ zpc = "done" => results[Len(results)] = term

--------------------------------------------------------------------------
\* Claims on the term store (specification SpecStore).

\* C12: whatever the interleaving of the producers' maker calls, two
\* completed calls return the same handle exactly when they asked for the
\* same shape, and exactly when the terms behind their handles are
\* structurally equal.
C12_Canonical ==
  \A c1 \in returned : \A c2 \in returned :
    LET t1 == Expand(made, c1.handle)
        t2 == Expand(made, c2.handle)
    IN  /\ (c1.shape = c2.shape) <=> (c1.handle = c2.handle)
        /\ (t1 = t2) <=> (c1.handle = c2.handle)
        /\ made[c1.handle] = c1.shape

C12_Witness ==
  \E c1 \in returned : \E c2 \in returned : \E c3 \in returned :
    /\ c1.p # c2.p
    /\ c1.shape = c2.shape /\ c1.handle = c2.handle
    /\ c3.shape.kids = << c1.handle >> /\ c3.handle # c1.handle

\* C19: no maker call asking for an operator or function application to no
\* argument returns a handle, and no such application is in the table.
\* Stated as the claim; op(And, vec![]) returns a handle like any other call.
C19_EmptyApplicationCrashes ==
  /\ \A c \in returned :
       ~(c.shape.node \in {"Op", "App"} /\ c.shape.kids = << >>)
  /\ \A s \in DOMAIN consign :
       ~(s.node \in {"Op", "App"} /\ s.kids = << >>)

\* C25: forall, exists and let_b called with no binding return the handle
\* of the body and the table holds no binder node binding nothing; called
\* with a binding they return a handle that is not the body's.
C25_EmptyBindingCollapses ==
  /\ \A c \in collapsed :
       /\ BindIsEmpty(c.shape)
       /\ c.handle = c.shape.kids[Len(c.shape.kids)]
  /\ \A s \in DOMAIN consign : ~BindIsEmpty(s)
  /\ \A i \in DOMAIN made : ~BindIsEmpty(made[i])
  /\ \A c \in returned :
       c.shape.node \in Binders =>
         /\ ~BindIsEmpty(c.shape)
         /\ c.handle # c.shape.kids[Len(c.shape.kids)]
         /\ made[c.handle] = c.shape

\* Both cases in one run: a let_b binding nothing gave back its body, and a
\* let_b with one binding on the same body gave a new node.
C25_Witness ==
  \E c \in collapsed : \E d \in returned :
    /\ c.shape.node = "Let" /\ d.shape.node = "Let"
    /\ d.shape.kids[2] = c.handle
    /\ d.handle # c.handle
    /\ Cardinality(DOMAIN consign) = 2

--------------------------------------------------------------------------
\* Claims on the offsets (specification SpecOffset).

\* C21: every Offset2 reached from init by calls of nxt has next = curr + 1,
\* and no call of nxt fails, up to the end of the 16-bit range.  Stated as
\* the claim; nxt on (65534, 65535) overflows on next.
C21_NextIsCurrPlusOne ==
  /\ ostat # "panicked"
  /\ ostat = "ok" => off2.next = off2.curr + 1

--------------------------------------------------------------------------
\* More claims on the zipper (specification SpecZip).

\* Every variable of t is a state variable in state st.
RECURSIVE AllSVar(_, _)
AllSVar(t, st) ==
  /\ t.node = "V" => t.st = st
  /\ \A i \in DOMAIN t.kids : AllSVar(t.kids[i], st)

\* C24: a call of bump returns a term only when every variable of its
\* argument is a current-state variable, and a call of debump only when
\* every variable of its argument is a next-state variable; otherwise they
\* return an error.  Stated as the claim; bump of a variable that is not a
\* state variable returns that variable.
C24_IllegalVariableIsError ==
  \A i \in 1 .. Len(results) :
    LET given == IF i = 1 THEN term ELSE results[i - 1]
    IN  /\ calls[i] = "bump" => AllSVar(given, "Curr")
        /\ calls[i] = "debump" => AllSVar(given, "Next")

\* C28: var_map with a closure that keeps every leaf returns the term it
\* was given, the order of arguments and of let-bindings included.  Stated
\* as the claim; on a let with two bindings it returns the let with the
\* bindings in reverse order.
C28_KeepIsIdentity ==
  (calls = << "keep" >> /\ zpc = "done") => results[1] = term

--------------------------------------------------------------------------
\* C29: in a run that returned, every failed solver request (construction,
\* declaration, assertion, check-sat, get-falsified, get-model, forget,
\* unroll) is followed by an error event and then by a done(Error) event.
C29_ErrorThenDoneError ==
  pc = "returned" =>
    \A i \in Idx :
      Failed(i) =>
        /\ i + 2 <= Len(hist)
        /\ hist[i + 1].op = "error"
        /\ hist[i + 2].op = "done_error"


--------------------------------------------------------------------------
\* Claims on the fold and the evaluator (specification SpecFold).

\* The number of let steps among the first i steps of the path.
LetDepth(i) == Cardinality({ j \in 1 .. i : fpath[j].step \in {"Let1", "Let2"} })

QuantDepth(i) == Cardinality({ j \in 1 .. i : fpath[j].step \in {"Forall", "Exists"} })

\* C22: whenever the function folded is called, the map of a let whose bound
\* values are being reduced holds none of its symbols, the map of a let
\* whose body is being reduced holds exactly its symbols with their reduced
\* values, and a let that has been left has no map.  Stated as the claim;
\* the second bound value of a let is reduced with the first symbol visible.
C22_LetScope ==
  fpc \in {"up", "done", "failed"} =>
    /\ Len(bindings) = LetDepth(Len(fpath))
    /\ \A i \in DOMAIN fpath :
         /\ fpath[i].step = "Let1" => DOMAIN bindings[LetDepth(i)] = {}
         /\ fpath[i].step = "Let2" =>
              LET lft == fpath[i].lft
                  map == bindings[LetDepth(i)]
              IN  /\ DOMAIN map = { lft[j].sym : j \in DOMAIN lft }
                  /\ \A j \in DOMAIN lft : map[lft[j].sym] = lft[j].val

\* C23: a variable handed to the evaluator evaluates to the value its
\* innermost active let binds it to; when no let binds it, the valuation
\* does not hold it and a quantifier binds it, evaluation fails; when nothing
\* holds it and its type is declared, it evaluates to the default of the
\* type.  Stated as the claim; a let-bound symbol that the valuation holds
\* evaluates to the valuation's value.
C23_VariableResolution ==
  (fstep.step = "V" /\ fpc \in {"up", "failed"}) =>
    LET sym == fstep.head
        b   == Extract(sym, bindings)
        q   == Extract(sym, quantified)
    IN  /\ b # 0 => fval = EvOk(bindings[b][sym])
        /\ (b = 0 /\ q # 0 /\ sym \notin DOMAIN fmodel) => ~fval.ok
        /\ (b = 0 /\ q = 0 /\ sym \notin DOMAIN fmodel /\ sym \in Declared) =>
             fval = EvOk(DefaultBool)

\* C30: at every call of the function folded there are as many binding maps
\* as let steps on the path and as many quantified maps as quantifier steps;
\* the fold never panics on an empty stack or on a let of nothing; both
\* stacks are empty when the fold returns its value.
C30_StacksBalanced ==
  /\ Len(bindings) = LetDepth(Len(fpath))
  /\ Len(quantified) = QuantDepth(Len(fpath))
  /\ fpc \notin Panics \ {"nothing"}
  /\ fpc = "done" => bindings = << >> /\ quantified = << >>

\* A fold that went down two lets, one in the body of the other, and came
\* back with its value.
C30_Witness ==
  /\ fpc = "done"
  /\ fterm.node = "Let"
  /\ Body(fterm).node = "Let"
  /\ Len(Body(fterm).binds) = 2

--------------------------------------------------------------------------
\* Claims on chains (specification SpecChain).

C27_SplitAt ==
  cpc = "split" =>
    LET geq  == { i \in DOMAIN chain : chain[i].val >= splitv }
        n    == Cardinality(geq)
        rest == split.rest
    IN  /\ Len(split.reps) = n
        /\ \A i \in geq :
             split.reps[1 + Cardinality({ j \in geq : chain[j].val < chain[i].val })]
               = chain[i].rep
        /\ rest = SubSeq(chain, n + 1, Len(chain))
        /\ \A i \in DOMAIN rest : rest[i].val < splitv
        /\ \A i \in DOMAIN rest : \A j \in DOMAIN rest :
             i < j => rest[i].val > rest[j].val

\* A split in the middle: two representatives out, one node left.
C27_Witness ==
  /\ cpc = "split"
  /\ Len(chain) = 3
  /\ Len(split.reps) = 2
  /\ Len(split.rest) = 1
  /\ split.reps[1] # split.reps[2]

====
